---- MODULE Spec2Model ----
(***************************************************************************)
(* State-machine model of affine.news: the query path (web/api/query2.py), *)
(* the spectrum cache (web/api/spectrum_cache.py), the two crawlers        *)
(* (crawler/models/Crawler.py, crawler/scripts/run_crawl_heuristic.py),    *)
(* the translation and embedding jobs (crawler/scripts/run_translate.py,   *)
(* run_embed.py) and the spectrum precompute job (run_spectrum_cache.py).  *)
(*                                                                         *)
(* Python values are modelled as follows.  None of a dict-valued result is *)
(* the record Null; None of a string is the string "null".  A dict whose   *)
(* key order depends on the data (articles_by_iso) is a sequence of        *)
(* <<key, value>> pairs in insertion order, as a Python dict keeps them.   *)
(* A call to the database, the embedding service or the LLM either works   *)
(* or raises; which one is an input of the action ("ok" / "error").        *)
(***************************************************************************)
EXTENDS Integers, Sequences, FiniteSets, TLC

VARIABLES
    now,                    \* wall clock, in ticks (NOW(), datetime.now())
    daily_topics,           \* table daily_topics: rows [topic, created_at]
    topic_spectrum_cache,   \* table topic_spectrum_cache: set of rows
    writes,                 \* number of cache_spectrum_analysis calls so far
    last_write,             \* history: key -> content of the last successful write
    rd,                     \* last spectrum_cache.get_cached_spectrum_analysis call
    ex,                     \* last call of execute: inputs, path taken, result
    http,                   \* response of the last GET /api/query
    prev,                   \* history: the response before it
    crawl,                  \* table crawl: rows [uuid, status, max_articles]
    article,                \* table article: url -> row, or NoRow
    cr,                     \* the running crawl_paper call: position, locals, history
    crawls_run,             \* number of crawl_paper calls so far
    em,                     \* the embedding job (run_embed.main): its locals
    tr,                     \* the translation job (translate_paper): its locals
    pf,                     \* last application of a function of the crawler to an input
    registry,               \* tables paper, category_set, crawl and article (committed)
    sync,                   \* last run of run_seed_papers.main or call of DBPaper.get_all
    sm,                     \* the running generate_country_summaries_parallel call
    sj                      \* the running run_spectrum_cache.main: its locals

queryVars == <<now, daily_topics, topic_spectrum_cache, writes, last_write, rd, ex, http, prev>>

crawlVars == <<crawl, article, cr, crawls_run>>
jobVars == <<pf, em, tr>>
seedVars == <<registry, sync>>
vars == <<queryVars, crawlVars, jobVars, seedVars, sm, sj>>

----------------------------------------------------------------------------
\* Bounds of the model.
MaxTime == 2
MaxCacheWrites == 2
MaxResults == 3
MaxResultsHttp == 6
MaxCrawls == 1
MaxCap == 1
MaxArticles == 2
MaxCategories == 2
MaxLinks == 2
\* Rows of daily_topics while the spectrum-cache job is followed.
MaxTopicRows == 3
\* Ancestors of an anchor, the anchor counted.
MaxDepth == 3
\* Countries of a call of generate_country_summaries_parallel.
MaxSummaryCountries == 5
\* Countries of a fallback response and articles of one country.
MaxCountries == 3
MaxCount == 8
\* A result set that Phase 2 cuts into more than one batch, and the batches
\* whose replies are chosen.
ManyArticles == 11
MaxPhase2Batches == 2
\* Articles and workers of one Phase 2.
MaxPhase2Articles == 45
MaxWorkers == 4
\* Points of the spectrum in a reply of Phase 1.
MaxPoints == 3
\* Articles selected by one translate_paper call.
MaxPaperRows == 3
\* Titles handed to one translate_batch call.
MaxTitles == 2
\* BATCH_SIZE of translator.py (50) and of run_embed.py (100), scaled down.
TRANSLATE_BATCH_SIZE == 2
EMBED_BATCH_SIZE == 1

\* Program constants.
MIN_ARTICLES_PER_COUNTRY == 3
MIN_HEADLINE_LENGTH == 14
MIN_SLUG_LENGTH == 20
NUM_WORKERS == 4

Null == [null |-> TRUE]

Queries == {"t1", "t2"}
TopicLabels == {"t1"}
Times == 0..MaxTime
\* DATE(created_at): a day has two ticks.
DATE(ts) == ts \div 2
Dates == {DATE(t) : t \in Times}
DbOutcomes == {"ok", "error"}

\* ISO codes in the order json.dumps(sort_keys=True) puts them.
IsoOrder == <<"AAA", "BBB">>
ISOs == {IsoOrder[i] : i \in 1..Len(IsoOrder)}
IsoRank(iso) == CHOOSE i \in 1..Len(IsoOrder) : IsoOrder[i] = iso
CountryName(iso) == IF iso = "AAA" THEN "A-land" ELSE "B-land"

----------------------------------------------------------------------------
(* The spectrum cache: table topic_spectrum_cache.                          *)

Points(n) == [i \in 1..n |-> [point_id |-> i, label |-> "label", description |-> "text"]]

Analysis(name, iso) ==
    [spectrum_name |-> name,
     spectrum_description |-> "axis",
     spectrum_points |-> Points(2),
     articles_by_country |->
        << <<iso, [country |-> CountryName(iso), summary |-> "framing",
                   articles |-> [i \in 1..MIN_ARTICLES_PER_COUNTRY |->
                                    [url |-> <<iso, i>>, point_id |-> 1]]]>> >>]

\* What the analyzer hands to cache_spectrum_analysis: two different records.
AnalysisResults == {Analysis("axis-1", "AAA"), Analysis("axis-2", "BBB")}

CacheKeys == Queries \X Dates

CacheRows(topic, topic_date) ==
    {r \in topic_spectrum_cache : r.topic = topic /\ r.topic_date = topic_date}

\* INSERT ... ON CONFLICT (topic, topic_date) DO UPDATE SET ..., created_at = NOW():
\* the rows the statement conflicts with.
ConflictRows(topic, topic_date) == CacheRows(topic, topic_date)

\* cache_spectrum_analysis: the table after the call.  On an exception nothing is
\* committed and the function returns False (query2.py: returns None).
cache_spectrum_analysis(topic, a, topic_date, db) ==
    IF db = "error"
    THEN topic_spectrum_cache
    ELSE (topic_spectrum_cache \ ConflictRows(topic, topic_date)) \cup
         {[topic |-> topic,
           topic_date |-> topic_date,
           spectrum_name |-> a.spectrum_name,
           spectrum_description |-> a.spectrum_description,
           spectrum_points |-> a.spectrum_points,
           articles_by_country |-> a.articles_by_country,
           created_at |-> now]}

\* ORDER BY created_at DESC LIMIT 1
LatestRow(rows) == CHOOSE r \in rows : \A s \in rows : s.created_at <= r.created_at

\* Mutant: the selected row is returned as it is.
CachedRowAsIs(result) ==
    [spectrum_name |-> result.spectrum_name,
     spectrum_description |-> result.spectrum_description,
     spectrum_points |-> result.spectrum_points,
     articles_by_country |-> result.articles_by_country]

\* The dict both readers build from the selected row.
CachedDict(result) ==
    [spectrum_name |-> result.spectrum_name,
     spectrum_description |-> result.spectrum_description,
     spectrum_points |-> result.spectrum_points,
     articles |-> result.articles_by_country]

\* Mutant: WHERE topic = %s, without the date.
get_cached_any_date(topic, topic_date, db) ==
    IF db = "error" \/ {r \in topic_spectrum_cache : r.topic = topic} = {}
    THEN Null
    ELSE CachedDict(LatestRow({r \in topic_spectrum_cache : r.topic = topic}))

\* query2.get_cached_spectrum_analysis: None when DATABASE_URL is unset, when the
\* lookup raises, or when no row matches.
get_cached_spectrum_analysis(topic, topic_date, db) ==
    IF db = "error" \/ CacheRows(topic, topic_date) = {}
    THEN Null
    ELSE CachedDict(LatestRow(CacheRows(topic, topic_date)))

\* spectrum_cache.get_cached_spectrum_analysis: the same statement on the shared
\* connection; any exception (cursor, execute, json.loads) gives None.
spectrum_cache_get_cached_spectrum_analysis(topic, topic_date, db) ==
    IF db = "error" \/ CacheRows(topic, topic_date) = {}
    THEN Null
    ELSE CachedDict(LatestRow(CacheRows(topic, topic_date)))

----------------------------------------------------------------------------
(* execute: cache-date resolution, cache lookup, retrieval, degraded answer. *)

TopicRows(topic) == {r \in daily_topics : r.topic = topic}

\* SELECT COUNT(*) FROM daily_topics WHERE topic = %s; False on any exception.
is_topic_predefined(topic, db) ==
    IF db = "error" THEN FALSE ELSE TopicRows(topic) # {}

\* Mutant: ORDER BY created_at ASC.
OldestTopic(rows) == CHOOSE r \in rows : \A s \in rows : s.created_at >= r.created_at

\* ORDER BY created_at DESC LIMIT 1 on daily_topics.
MostRecentTopic(rows) == CHOOSE r \in rows : \A s \in rows : s.created_at <= r.created_at

get_topic_date_for_cache(topic, default_date, db1, db2) ==
    IF ~is_topic_predefined(topic, db1)
    THEN default_date
    ELSE IF db2 = "error" \/ TopicRows(topic) = {}
         THEN default_date
         ELSE DATE(MostRecentTopic(TopicRows(topic)).created_at)

\* Whether a daily_topics lookup that was made raised.
TopicLookupFailed(topic, db1, db2) ==
    db1 = "error" \/ (is_topic_predefined(topic, db1) /\ db2 = "error")

\* The similarity query's rows, best first: (country, url); a url is the
\* country and the rank of the article among that country's rows.
ResultSets(n) == UNION {[1..k -> ISOs] : k \in 0..n}

ArticleRows(isos) ==
    [i \in 1..Len(isos) |->
        [iso |-> isos[i],
         url |-> <<isos[i], Cardinality({j \in 1..i : isos[j] = isos[i]})>>]]

\* Keys of a dict filled by "if iso not in d: d[iso] = ..." over the list.
RECURSIVE GroupKeys(_)
GroupKeys(articles) ==
    IF articles = <<>>
    THEN <<>>
    ELSE LET n == Len(articles)
             before == GroupKeys(SubSeq(articles, 1, n - 1))
         IN IF \E i \in 1..Len(before) : before[i] = articles[n].iso
            THEN before
            ELSE Append(before, articles[n].iso)

ArticlesOf(articles, iso) == SelectSeq(articles, LAMBDA a : a.iso = iso)

keep_every_country(articles, iso) == TRUE

\* Whether a country of the result set is kept.
KeepCountry(articles, iso) == Len(ArticlesOf(articles, iso)) >= MIN_ARTICLES_PER_COUNTRY

RECURSIVE ExtendKept(_, _)
ExtendKept(articles, keys) ==
    IF keys = <<>>
    THEN <<>>
    ELSE (IF KeepCountry(articles, Head(keys)) THEN ArticlesOf(articles, Head(keys)) ELSE <<>>)
         \o ExtendKept(articles, Tail(keys))

\* fetch_articles_for_query: [] when the embedding call or the database raises.
fetch_articles_for_query(embed, db, isos) ==
    IF embed = "error" \/ db = "error"
    THEN <<>>
    ELSE ExtendKept(ArticleRows(isos), GroupKeys(ArticleRows(isos)))

point_id_reversed(count, min_count, max_count) ==
    IF count = max_count THEN 1 ELSE 4

\* int(round(1 + (count - min_count) / (max_count - min_count) * 3)); Python rounds
\* a half to the even neighbour.
PointIdOf(count, min_count, max_count) ==
    IF max_count > min_count
    THEN LET n == 3 * (count - min_count)
             d == max_count - min_count
             lo == 1 + (n \div d)
             r == n % d
         IN IF 2 * r < d THEN lo
            ELSE IF 2 * r > d THEN lo + 1
            ELSE IF lo % 2 = 0 THEN lo ELSE lo + 1
    ELSE 1

SummaryText(iso) == IF iso = "AAA" THEN "about A-land" ELSE "about B-land"

\* generate_country_summaries_parallel: llm is the set of countries whose call
\* returned text; a failed or empty reply gives None.
CountrySummary(articles, iso, llm) ==
    IF Len(ArticlesOf(articles, iso)) >= 3 /\ iso \in llm THEN SummaryText(iso) ELSE "null"

VolumeLabels(min_count, max_count) ==
    IF max_count > min_count
    THEN <<min_count,
           min_count + ((max_count - min_count) \div 3),
           min_count + ((2 * (max_count - min_count)) \div 3),
           max_count>>
    ELSE <<min_count, min_count, min_count, min_count>>

\* The degraded "Article Volume" answer built from a non-empty article list.
ArticleVolumeResponse(articles, llm) ==
    LET keys == GroupKeys(articles)
        count(iso) == Len(ArticlesOf(articles, iso))
        counts == {count(keys[i]) : i \in 1..Len(keys)}
        max_count == CHOOSE c \in counts : \A x \in counts : x <= c
        min_count == CHOOSE c \in counts : \A x \in counts : x >= c
        steps == VolumeLabels(min_count, max_count)
        entry(iso) ==
            [country |-> CountryName(iso),
             articles |-> [i \in 1..count(iso) |->
                             [url |-> ArticlesOf(articles, iso)[i].url,
                              point_id |-> PointIdOf(count(iso), min_count, max_count)]],
             summary |-> CountrySummary(articles, iso, llm)]
    IN [spectrum_name |-> "Article Volume",
        spectrum_description |-> "Number of articles about this topic",
        spectrum_points |-> [i \in 1..4 |->
                               [point_id |-> i, label |-> steps[i], description |-> ""]],
        articles |-> [i \in 1..Len(keys) |-> <<keys[i], entry(keys[i])>>]]

EmptyResponse ==
    [spectrum_name |-> "null",
     spectrum_description |-> "null",
     spectrum_points |-> <<>>,
     articles |-> <<>>]

\* What fetch_articles_for_query can return, with what happened inside it.
FetchOutcomes(n) ==
    {[articles |-> <<>>, embed |-> "error", db |-> "none"],
     [articles |-> <<>>, embed |-> "ok", db |-> "error"]} \cup
    {[articles |-> fetch_articles_for_query("ok", "ok", isos), embed |-> "ok", db |-> "ok"] :
        isos \in ResultSets(n)}

FetchOutcomesQuery == FetchOutcomes(MaxResults)
FetchOutcomesHttp == FetchOutcomes(MaxResultsHttp)

\* What get_topic_date_for_cache can return, with whether a lookup raised.
TopicDateOutcomes(topic, default_date) ==
    {[topic_date |-> get_topic_date_for_cache(topic, default_date, db1, db2),
      topic_lookup |-> IF TopicLookupFailed(topic, db1, db2) THEN "error" ELSE "ok"] :
        db1 \in DbOutcomes, db2 \in DbOutcomes}

IdleCall == [path |-> "idle"]

ExCall(search_query, date_end, t, cache_db, path, result, f, llm_calls) ==
    [query |-> search_query, date_end |-> date_end,
     topic_date |-> t.topic_date, topic_lookup |-> t.topic_lookup,
     cache_lookup |-> cache_db,
     path |-> path, result |-> result,
     embed |-> f.embed, db_articles |-> f.db, found |-> Len(f.articles),
     llm_calls |-> llm_calls]

NoFetch == [articles |-> <<>>, embed |-> "none", db |-> "none"]

\* execute(search_query, date_start, date_end).  date_start only narrows the
\* similarity query, whose rows are an input here.  "raised" is an exception that
\* no try block inside execute absorbs (ThreadPoolExecutor cannot start a thread).
execute(search_query, date_end, fetches) ==
    \E t \in TopicDateOutcomes(search_query, date_end), cache_db \in DbOutcomes :
        LET cached_result == get_cached_spectrum_analysis(search_query, t.topic_date, cache_db)
        IN IF cached_result # Null
           THEN ex' = ExCall(search_query, date_end, t, cache_db, "hit", cached_result, NoFetch, 0)
           ELSE \E f \in fetches :
                  IF f.articles = <<>>
                  THEN ex' = ExCall(search_query, date_end, t, cache_db, "empty",
                                    EmptyResponse, f, 0)
                  ELSE LET keys == GroupKeys(f.articles)
                           asked == {keys[i] : i \in 1..Len(keys)}
                       IN \/ \E llm \in SUBSET asked :
                               ex' = ExCall(search_query, date_end, t, cache_db, "fallback",
                                            ArticleVolumeResponse(f.articles, llm), f,
                                            Cardinality({iso \in asked :
                                                Len(ArticlesOf(f.articles, iso)) >= 3}))
                          \/ ex' = ExCall(search_query, date_end, t, cache_db, "raised",
                                          Null, f, 0)

----------------------------------------------------------------------------
(* The HTTP handler of GET /api/query.                                       *)

\* json.dumps(..., sort_keys=True): the keys of every dict in sorted order.  The
\* only dict whose key order depends on the data is "articles".
SortByKey(pairs) ==
    LET ks == SelectSeq(IsoOrder, LAMBDA k : \E j \in 1..Len(pairs) : pairs[j][1] = k)
    IN [i \in 1..Len(ks) |-> pairs[CHOOSE j \in 1..Len(pairs) : pairs[j][1] = ks[i]]]

\* Mutant: json.dumps without sort_keys.
json_dumps_unsorted(final_response) ==
    [spectrum_name |-> final_response.spectrum_name,
     spectrum_description |-> final_response.spectrum_description,
     spectrum_points |-> final_response.spectrum_points,
     articles |-> final_response.articles]

json_dumps(final_response) ==
    [spectrum_name |-> final_response.spectrum_name,
     spectrum_description |-> final_response.spectrum_description,
     spectrum_points |-> final_response.spectrum_points,
     articles |-> SortByKey(final_response.articles)]

\* hashlib.sha1(body).hexdigest(): a function of the bytes, taken collision-free.
sha1_hexdigest(body) == <<"sha1", body>>

\* etag = '"' + hexdigest + '"'
ETagOf(body) == <<"dquote", sha1_hexdigest(body), "dquote">>

NoHeader == <<>>
NoResponse == [status |-> 0]

\* The response do_GET writes once execute has returned (or raised).
HandlerResponse(call, if_none_match) ==
    IF call.path = "raised"
    THEN [status |-> 500, content_type |-> "application/json", cache_control |-> "none",
          etag |-> NoHeader, body |-> [error |-> "str(e)"],
          if_none_match |-> if_none_match, final_response |-> Null]
    ELSE LET body == json_dumps(call.result)
             etag == ETagOf(body)
         IN IF if_none_match = etag
            THEN [status |-> 304, content_type |-> "none", cache_control |-> "none",
                  etag |-> NoHeader, body |-> Null,
                  if_none_match |-> if_none_match, final_response |-> call.result]
            ELSE [status |-> 200, content_type |-> "application/json",
                  cache_control |-> "public, max-age=14400",
                  etag |-> etag, body |-> body,
                  if_none_match |-> if_none_match, final_response |-> call.result]

BadRequestResponse ==
    [status |-> 400, content_type |-> "application/json", cache_control |-> "none",
     etag |-> NoHeader, body |-> [error |-> "Missing required query parameters"],
     if_none_match |-> NoHeader, final_response |-> Null]

----------------------------------------------------------------------------
(* The crawlers: tables crawl and article, and the locals of crawl_paper.    *)

URLs == {"u1", "u2"}
Titles == {"headline one", "headline two"}

\* max_articles=None
NoCap == -1
Caps == {NoCap} \cup 1..MaxCap

\* uuid.uuid4() of the n-th Crawl; None for an Article built without crawl_uuid.
Uuid(n) == <<"uuid", n>>
NoUuid == <<>>

NoRow == [absent |-> TRUE]

\* No run of the job is under way.
NoJob == [pc |-> "idle"]

\* DBArticle.cache_hit: SELECT * FROM article WHERE url=%s and title is not null.
DBArticle_cache_hit(url) == article[url] # NoRow /\ article[url].title # "null"

\* An upsert that leaves title_translated and title_embedding of a stored row
\* as they are.
DBArticle_save_keeping(url, title, lang, crawl_uuid, db) ==
    IF db = "error"
    THEN article
    ELSE [article EXCEPT ![url] =
            [title |-> title, lang |-> lang, crawl_uuid |-> crawl_uuid,
             title_translated |-> IF article[url] = NoRow THEN "null"
                                  ELSE article[url].title_translated,
             title_embedding |-> IF article[url] = NoRow THEN "null"
                                 ELSE article[url].title_embedding]]

\* DBArticle.save: INSERT ... ON CONFLICT (url) DO UPDATE SET every column; an
\* exception of the statement is printed and the save returns normally.  The
\* crawlers build the Article without title_translated and title_embedding,
\* which are None on the object and so NULL in the row that is written.
DBArticle_save(url, title, lang, crawl_uuid, db) ==
    IF db = "error"
    THEN article
    ELSE [article EXCEPT ![url] = [title |-> title, lang |-> lang,
                                   crawl_uuid |-> crawl_uuid,
                                   title_translated |-> "null",
                                   title_embedding |-> "null"]]

\* DBCrawl.create: INSERT INTO crawl.
DBCrawl_create(c) == crawl \cup {[uuid |-> c.uuid, status |-> c.status, max_articles |-> c.max_articles]}

\* DBCrawl.update_status: UPDATE crawl SET status=%s WHERE uuid=%s.
DBCrawl_update_status(c, status) ==
    {IF r.uuid = c.uuid THEN [r EXCEPT !.status = status] ELSE r : r \in crawl}

\* DBCrawl.cache_hit: a COMPLETED crawl of the paper, of today, with the same
\* max_articles.  There is one paper and the crawls of one day.
DBCrawl_cache_hit(c) ==
    \E r \in crawl : r.status = "COMPLETED" /\ r.max_articles = c.max_articles

IdleCrawl == [pc |-> "idle"]
NoCrawl == [uuid |-> NoUuid, status |-> "none", max_articles |-> NoCap]
NoStep == [action |-> "none"]

\* The locals of a crawl_paper call.  saved counts the rows this call wrote to
\* article, completed the update_status(COMPLETED) calls, last is what was done
\* with the last article or anchor.  For the heuristic crawler classified and
\* save_calls count, per canonical URL, the is_likely_article and article.save()
\* calls, and dup tells that an anchor was dropped as already seen.
CrawlState(kind, pc, ignore_cache, max_articles, c) ==
    [kind |-> kind, pc |-> pc, ignore_cache |-> ignore_cache, max_articles |-> max_articles,
     crawl |-> c, count_success |-> 0, articles_index |-> 0, categories |-> 0, links |-> 0,
     seen_urls |-> {}, saved |-> 0, completed |-> 0, last |-> NoStep,
     classified |-> [u \in URLs |-> 0], save_calls |-> [u \in URLs |-> 0], dup |-> FALSE,
     pages |-> 0, failed_pages |-> 0]

Step(action, url, hit, before, after_cap) ==
    [action |-> action, url |-> url, hit |-> hit, before |-> before, after_cap |-> after_cap]

----------------------------------------------------------------------------
(* URLs of anchors (run_crawl_heuristic.py): urljoin, yarl.URL.              *)

\* A URL or URL reference, as urlparse splits it.  path is what follows the
\* leading "/" split at "/", so a last element "" is a trailing slash; rooted
\* tells a path that starts with "/".  Absent parts are "".
UrlRef(scheme, host, rooted, path, query, fragment) ==
    [scheme |-> scheme, host |-> host, rooted |-> rooted, path |-> path,
     query |-> query, fragment |-> fragment]

\* urllib.parse.uses_relative, of the schemes of the model.
uses_relative == {"https"}

\* urljoin's merge of a relative path with the base path: the base path without
\* its last element, then the reference.
MergePaths(bpath, path) ==
    (IF bpath = <<>> THEN <<>> ELSE SubSeq(bpath, 1, Len(bpath) - 1)) \o path

\* requests.compat.urljoin(base, href), href not empty.
urljoin(base, href) ==
    IF href.scheme # "" /\ (href.scheme # base.scheme \/ href.scheme \notin uses_relative)
    THEN href
    ELSE IF href.host # ""
    THEN [href EXCEPT !.scheme = base.scheme]
    ELSE IF href.path = <<>> /\ ~href.rooted
    THEN [base EXCEPT !.query = IF href.query # "" THEN href.query ELSE base.query,
                      !.fragment = href.fragment]
    ELSE [base EXCEPT !.rooted = TRUE,
                      !.path = IF href.rooted THEN href.path
                               ELSE MergePaths(base.path, href.path),
                      !.query = href.query,
                      !.fragment = href.fragment]

\* Mutant: the query is kept.
keep_query(u) == u

\* yarl: URL.with_query(None), URL.with_fragment(None).
with_query_none(u) == [u EXCEPT !.query = ""]
with_fragment_none(u) == [u EXCEPT !.fragment = ""]

\* Lines 226-231: url_normalized of an anchor of the page category_url.
url_normalized(category_url, href) ==
    with_fragment_none(with_query_none(urljoin(category_url, href)))

UrlHosts == {"news.example", "www.news.example", "other.example"}
UrlPaths == {<<>>, <<"world", "">>, <<"world", "a-long-story-slug-2025">>}
RelPaths == {<<"a-long-story-slug-2025">>, <<"sport", "x">>, <<"2025-09-15-vote">>}
UrlQueries == {"", "utm=1"}
UrlFragments == {"", "top"}

\* The category pages of the paper.
CategoryUrls ==
    {UrlRef("https", "news.example", TRUE, <<"world", "">>, "", ""),
     UrlRef("https", "news.example", TRUE, <<"world">>, "page=2", "")}

\* The href attributes an anchor can have ("" is skipped at line 221).
Hrefs ==
    ({UrlRef(sc, h, p # <<>>, p, q, f) :
        sc \in {"", "https"}, h \in UrlHosts, p \in UrlPaths, q \in UrlQueries,
        f \in UrlFragments}
     \cup {UrlRef("mailto", "", FALSE, <<"desk">>, q, "") : q \in UrlQueries}
     \cup {UrlRef("", "", TRUE, p, q, f) :
        p \in UrlPaths, q \in UrlQueries, f \in UrlFragments}
     \cup {UrlRef("", "", FALSE, p, q, f) :
        p \in RelPaths \cup {<<>>}, q \in UrlQueries, f \in UrlFragments})
    \ {UrlRef("", "", FALSE, <<>>, "", "")}

\* len() of the parts of the model's URLs.
StrLen(a) ==
    CASE a = "" -> 0
      [] a = "x" -> 1
      [] a = "top" -> 3
      [] a = "desk" -> 4
      [] a \in {"https", "world", "sport", "utm=1"} -> 5
      [] a \in {"mailto", "page=2"} -> 6
      [] a = "news.example" -> 12
      [] a = "other.example" -> 13
      [] a = "2025-09-15-vote" -> 15
      [] a = "www.news.example" -> 16
      [] a = "a-long-story-slug-2025" -> 22

RECURSIVE PathLen(_)
PathLen(path) == IF path = <<>> THEN 0 ELSE 1 + StrLen(Head(path)) + PathLen(Tail(path))

\* len(str(url)).
UrlLen(u) ==
    StrLen(u.scheme) + (IF u.host # "" THEN 3 ELSE 1) + StrLen(u.host)
    + (IF u.path = <<>> /\ u.host # "" THEN 1 ELSE PathLen(u.path))
    + (IF u.query # "" THEN 1 + StrLen(u.query) ELSE 0)
    + (IF u.fragment # "" THEN 1 + StrLen(u.fragment) ELSE 0)

\* normalize_host: host.replace('www.', '').
normalize_host(host) == IF host = "www.news.example" THEN "news.example" ELSE host

\* str.startswith on path_qs: p's "/"-joined path and query start q's.
PathQsStartsWith(q, p) ==
    IF p.query # ""
    THEN p.path = q.path /\ p.query = q.query
    ELSE \/ p.path = <<>>
         \/ /\ Len(q.path) >= Len(p.path)
            /\ \A i \in 1..(Len(p.path) - 1) : p.path[i] = q.path[i]
            /\ p.path[Len(p.path)] \in {"", q.path[Len(p.path)]}

\* Mutant: the paths and queries are compared, and the hosts are not.
path_qs_startswith(a, b) == PathQsStartsWith(a, b)

\* get_comparable_url_string(a).startswith(get_comparable_url_string(b)).
ComparableStartsWith(a, b) ==
    normalize_host(a.host) = normalize_host(b.host) /\ PathQsStartsWith(a, b)

\* A whitelist pattern: a regular expression that is a literal URL prefix
\* (regex = TRUE, matched by re.match against str(full_url_obj)), or a URL
\* that does not compile as a regular expression (compared as a prefix).
WhitelistMatch(pattern, full_url_obj) ==
    IF pattern.regex
    THEN /\ pattern.url.scheme = full_url_obj.scheme
         /\ pattern.url.host = full_url_obj.host
         /\ PathQsStartsWith(full_url_obj, pattern.url)
    ELSE ComparableStartsWith(full_url_obj, pattern.url)

\* path.rstrip('/').split('/')[-1]
RECURSIVE SlugOf(_)
SlugOf(path) ==
    IF path = <<>> THEN ""
    ELSE IF path[Len(path)] = "" THEN SlugOf(SubSeq(path, 1, Len(path) - 1))
    ELSE path[Len(path)]

InPath(path, atoms) == \E i \in 1..Len(path) : path[i] \in atoms

\* Mutant: the date pattern is never found.
has_no_date(path) == FALSE

\* The regular expressions of lines 153-159 on the paths of the model.
HasDate(path) == InPath(path, {"2025-09-15-vote"})
HasHtmlSuffix(path) == InPath(path, {})
HasLongDigits(path) == InPath(path, {})

\* is_likely_article(href, text, base_url, detector, whitelist).  text is
\* [len, alpha]: its length and whether it has a letter; detector is the set
\* of slugs RandomStringDetector calls random.
is_likely_article(href, text, base_url, detector, whitelist) ==
    IF text.len > 0 /\ ~text.alpha THEN FALSE
    ELSE IF text.len < MIN_HEADLINE_LENGTH THEN FALSE
    ELSE LET full_url_obj == urljoin(base_url, href)
             path == full_url_obj.path
             slug == SlugOf(path)
         IN IF path \in {<<>>, <<"">>} \/ full_url_obj = base_url THEN FALSE
            ELSE IF \E pattern \in whitelist : WhitelistMatch(pattern, full_url_obj) THEN TRUE
            ELSE IF ~ComparableStartsWith(full_url_obj, base_url) THEN FALSE
            ELSE IF slug = "" THEN FALSE
            ELSE IF /\ StrLen(slug) < 16 /\ slug \notin detector
                    /\ UrlLen(full_url_obj) < UrlLen(base_url) * 2
                    /\ ~HasDate(path)
            THEN FALSE
            ELSE \/ HasHtmlSuffix(path) \/ HasDate(path) \/ HasLongDigits(path)
                 \/ StrLen(slug) > MIN_SLUG_LENGTH
                 \/ slug \in detector

\* Anchor texts as find_title_for_link returns them.
Texts == {[len |-> 0, alpha |-> FALSE], [len |-> 5, alpha |-> FALSE],
          [len |-> 9, alpha |-> TRUE], [len |-> 20, alpha |-> FALSE],
          [len |-> 20, alpha |-> TRUE]}
Detectors == {{}, {"x"}}
Whitelists ==
    {{},
     {[regex |-> TRUE, url |-> UrlRef("https", "news.example", TRUE, <<"sport", "">>, "", "")]},
     {[regex |-> FALSE, url |-> UrlRef("https", "www.news.example", TRUE, <<"world", "">>, "", "")]}}

\* The anchors a category page can hold: [href, text].
PageAnchors ==
    {[href |-> UrlRef("", "", FALSE, p, q, ""), text |-> [len |-> n, alpha |-> TRUE]] :
        p \in {<<"a-long-story-slug-2025">>, <<"2025-09-15-vote">>},
        q \in UrlQueries, n \in {9, 20}}

\* Lines 216-260 over the anchors of one page, with max_articles=None:
\* [seen_urls, accepted], accepted being accepted_links_by_category[category_url].
RECURSIVE ScanLinks(_, _, _, _)
ScanLinks(category_url, links, detector, whitelist) ==
    IF links = <<>>
    THEN [seen_urls |-> {}, accepted |-> <<>>]
    ELSE LET before == ScanLinks(category_url, SubSeq(links, 1, Len(links) - 1),
                                 detector, whitelist)
             link == links[Len(links)]
             url == url_normalized(category_url, link.href)
         IN IF url \in before.seen_urls
            THEN before
            ELSE [seen_urls |-> before.seen_urls \cup {url},
                  accepted |->
                     IF is_likely_article(link.href, link.text, category_url,
                                          detector, whitelist)
                     THEN Append(before.accepted, url)
                     ELSE before.accepted]

Reverse(q) == [i \in 1..Len(q) |-> q[Len(q) + 1 - i]]

----------------------------------------------------------------------------
(* crawler/services/translator.py.  A title is a string; what the code looks *)
(* at is whether it is empty, whether it is blank, and its value stripped.   *)

target_lang == "en"
Langs == {"en", "fr", "de"}
TitleTexts == {"", " ", "titre", " titre "}

\* str.strip()
strip(text) ==
    CASE text = " " -> ""
      [] text = " titre " -> "titre"
      [] text = " T " -> "T"
      [] text = " deux " -> "deux"
      [] text = " two " -> "two"
      [] OTHER -> text

\* bool(x) of a str or None
Truthy(x) == x \notin {"null", ""}

\* What the upstream does with the batches of one source language: raise (or
\* reply with invalid JSON), reply with a JSON value that is no list, or reply
\* with a list of len(batch) + delta items.
UpstreamItems == {"null", "", " ", " T "}
UpstreamReplies ==
    {[kind |-> "error"], [kind |-> "non-list"]}
        \cup {[kind |-> "list", delta |-> -1, item |-> " T "]}
        \cup {[kind |-> "list", delta |-> 0, item |-> x] : x \in UpstreamItems}

\* translate_text: lines 23-42.
translate_text(text, reply) ==
    IF ~Truthy(text) \/ ~Truthy(strip(text))
    THEN "null"
    ELSE IF reply.kind # "list"
         THEN "null"
         ELSE IF reply.item = "null"
              THEN "null"
              ELSE IF Truthy(strip(reply.item)) THEN strip(reply.item) ELSE "null"

\* What a faithful upstream writes for a title of the prompt.
Translation(text) ==
    CASE text = "un" -> "one"
      [] text = " deux " -> " two "
      [] OTHER -> " T "

\* Mutant: the translations are read back from the end of the reply.
zip_reversed(batch, translations, idx) ==
    translations[Len(batch) + 1 - (CHOOSE k \in 1..Len(batch) : batch[k] = idx)]

\* Line 118: zip(batch, translations), the translation paired with idx.
zip_batch(batch, translations, idx) ==
    translations[CHOOSE k \in 1..Len(batch) : batch[k] = idx]

ReplyNeverAccepted(reply, batch) == FALSE

\* Line 117: the reply is a list of len(batch) items.
ReplyAccepted(reply, batch) == reply.kind = "list" /\ Len(batch) + reply.delta = Len(batch)

\* translate_batch: lines 44-131.  texts_with_info is a list of [text, lang,
\* url]; upstream maps a source language to the reply of its batches.  A
\* reply of kind "translations" is the list of the translations of the titles
\* of the prompt, in the order of the prompt (lines 100-101), but for the
\* batches numbered in raises, whose call raises.
translate_batch(texts_with_info, upstream) ==
    LET n == Len(texts_with_info)
        skipped(i) == LET text == texts_with_info[i].text
                      IN ~Truthy(text) \/ ~Truthy(strip(text))
        \* by_lang[source_lang], as indices into texts_with_info
        lang_texts(lang) ==
            SelectSeq([i \in 1..n |-> i],
                      LAMBDA i : ~skipped(i) /\ texts_with_info[i].lang = lang
                                             /\ lang # target_lang)
        pos(q, i) == CHOOSE k \in 1..Len(q) : q[k] = i
        batch_of(q, k) ==
            LET batch_start == ((k - 1) \div TRANSLATE_BATCH_SIZE) * TRANSLATE_BATCH_SIZE
                batch_end == IF batch_start + TRANSLATE_BATCH_SIZE < Len(q)
                             THEN batch_start + TRANSLATE_BATCH_SIZE ELSE Len(q)
            IN SubSeq(q, batch_start + 1, batch_end)
    IN [i \in 1..n |->
          LET text == texts_with_info[i].text
              lang == texts_with_info[i].lang
          IN IF skipped(i)
             THEN "null"
             ELSE IF lang = target_lang
                  THEN strip(text)
                  ELSE LET q == lang_texts(lang)
                           batch == batch_of(q, pos(q, i))
                           reply == upstream[lang]
                           translations ==
                              [k \in 1..Len(batch) |->
                                 Translation(texts_with_info[batch[k]].text)]
                       IN IF reply.kind = "translations"
                          THEN IF (pos(q, i) - 1) \div TRANSLATE_BATCH_SIZE \in reply.raises
                               THEN "null"
                               ELSE strip(zip_batch(batch, translations, i))
                          ELSE IF ReplyAccepted(reply, batch)
                               THEN IF Truthy(reply.item) THEN strip(reply.item) ELSE "null"
                               ELSE "null"]

RECURSIVE SeqsUpTo(_, _)
SeqsUpTo(S, n) ==
    IF n = 0 THEN {<<>>}
    ELSE LET shorter == SeqsUpTo(S, n - 1)
         IN shorter \cup {Append(q, x) : q \in {r \in shorter : Len(r) = n - 1}, x \in S}

TextsWithInfo ==
    SeqsUpTo({[text |-> t, lang |-> l] : t \in TitleTexts, l \in Langs}, MaxTitles)

Upstreams == [Langs \ {target_lang} -> UpstreamReplies]

NoCall == [op |-> "none"]

----------------------------------------------------------------------------
(* Actions.                                                                  *)

NoRead == [op |-> "idle"]

\* No call is being observed: the jobs and the next request may run.
Quiet == ex = IdleCall /\ http = NoResponse /\ rd = NoRead

\* The tables the registry sync reads and writes, empty; a row of crawl or
\* article is its paper_uuid.
EmptyRegistry == [paper |-> {}, category_set |-> {}, crawl |-> {}, article |-> {}]
NoSync == [op |-> "none"]
NoSummaries == [pc |-> "idle"]

Init ==
    /\ now = 0
    /\ daily_topics = {}
    /\ topic_spectrum_cache = {}
    /\ writes = 0
    /\ last_write = [k \in CacheKeys |-> Null]
    /\ rd = NoRead
    /\ ex = IdleCall
    /\ http = NoResponse
    /\ prev = NoResponse
    /\ crawl = {}
    /\ article = [u \in URLs |-> NoRow]
    /\ cr = IdleCrawl
    /\ crawls_run = 0
    /\ pf = NoCall
    /\ em = NoJob
    /\ tr = NoJob
    /\ registry = EmptyRegistry
    /\ sync = NoSync
    /\ sm = NoSummaries
    /\ sj = NoJob

Tick ==
    /\ Quiet
    /\ now < MaxTime
    /\ now' = now + 1
    /\ UNCHANGED <<daily_topics, topic_spectrum_cache, writes, last_write, rd, ex, http, prev, crawlVars, jobVars, seedVars, sm, sj>>

\* run_generate_topics: INSERT INTO daily_topics (topic, created_at) with the
\* batch timestamp.
InsertDailyTopic(label) ==
    /\ Quiet
    /\ daily_topics' = daily_topics \cup {[topic |-> label, created_at |-> now]}
    /\ UNCHANGED <<now, topic_spectrum_cache, writes, last_write, rd, ex, http, prev, crawlVars, jobVars, seedVars, sm, sj>>

\* A call of cache_spectrum_analysis.
CacheWrite(topic, a, topic_date, db) ==
    /\ Quiet
    /\ writes < MaxCacheWrites
    /\ writes' = writes + 1
    /\ topic_spectrum_cache' = cache_spectrum_analysis(topic, a, topic_date, db)
    /\ last_write' = IF db = "ok"
                     THEN [last_write EXCEPT ![<<topic, topic_date>>] = a]
                     ELSE last_write
    /\ UNCHANGED <<now, daily_topics, rd, ex, http, prev, crawlVars, jobVars, seedVars, sm, sj>>

\* A call of spectrum_cache.get_cached_spectrum_analysis.
CacheRead(topic, topic_date, db) ==
    /\ Quiet
    /\ rd' = [op |-> "read", topic |-> topic, topic_date |-> topic_date, db |-> db,
              value |-> spectrum_cache_get_cached_spectrum_analysis(topic, topic_date, db)]
    /\ UNCHANGED <<now, daily_topics, topic_spectrum_cache, writes, last_write, ex, http, prev, crawlVars, jobVars, seedVars, sm, sj>>

\* Mutant: the degraded answer is written to the cache.
ExecuteCallCaching(search_query, date_end) ==
    /\ Quiet
    /\ execute(search_query, date_end, FetchOutcomesQuery)
    /\ topic_spectrum_cache' =
          IF ex'.path = "fallback"
          THEN topic_spectrum_cache \cup
               {[topic |-> search_query, topic_date |-> ex'.topic_date,
                 spectrum_name |-> ex'.result.spectrum_name,
                 spectrum_description |-> ex'.result.spectrum_description,
                 spectrum_points |-> ex'.result.spectrum_points,
                 articles_by_country |-> ex'.result.articles,
                 created_at |-> now]}
          ELSE topic_spectrum_cache
    /\ UNCHANGED <<now, daily_topics, writes, last_write, rd, http, prev, crawlVars, jobVars, seedVars, sm, sj>>

\* execute called directly (scripts/run_query.py).
ExecuteCall(search_query, date_end) ==
    /\ Quiet
    /\ execute(search_query, date_end, FetchOutcomesQuery)
    /\ UNCHANGED <<now, daily_topics, topic_spectrum_cache, writes, last_write, rd, http, prev, crawlVars, jobVars, seedVars, sm, sj>>

\* The caller has its result.
Return ==
    /\ ex # IdleCall \/ rd # NoRead
    /\ http = NoResponse
    /\ ex' = IdleCall
    /\ rd' = NoRead
    /\ UNCHANGED <<now, daily_topics, topic_spectrum_cache, writes, last_write, http, prev, crawlVars, jobVars, seedVars, sm, sj>>

\* What a client can send as If-None-Match: nothing, the ETag it was last given,
\* or that hash without the quotes.
IfNoneMatchValues ==
    IF prev = NoResponse THEN {NoHeader} ELSE {NoHeader, prev.etag, <<prev.etag[2]>>}

do_GET(search_query, date_end, if_none_match) ==
    /\ Quiet
    /\ execute(search_query, date_end, FetchOutcomesHttp)
    /\ http' = HandlerResponse(ex', if_none_match)
    /\ UNCHANGED <<now, daily_topics, topic_spectrum_cache, writes, last_write, rd, prev, crawlVars, jobVars, seedVars, sm, sj>>

\* A request without query, date_start or date_end.
do_GET_missing ==
    /\ Quiet
    /\ http' = BadRequestResponse
    /\ UNCHANGED <<now, daily_topics, topic_spectrum_cache, writes, last_write, rd, ex, prev, crawlVars, jobVars, seedVars, sm, sj>>

\* The response has gone out; the client keeps the last 200 it got.
ResponseSent ==
    /\ http # NoResponse
    /\ prev' = IF http.status = 200
                THEN [status |-> 200, etag |-> http.etag, body |-> http.body,
                      final_response |-> http.final_response]
                ELSE prev
    /\ http' = NoResponse
    /\ ex' = IdleCall
    /\ UNCHANGED <<now, daily_topics, topic_spectrum_cache, writes, last_write, rd, crawlVars, jobVars, seedVars, sm, sj>>

\* precompute_spectrum_analysis caching the analysis of a topic of daily_topics
\* under (topic, DATE(created_at)).
JobCacheWrite(row, a, db) ==
    CacheWrite(row.topic, a, DATE(row.created_at), db)

----------------------------------------------------------------------------
(* Crawler.crawl_paper (crawler/models/Crawler.py), in steps.                *)

CapReached(c) == c.max_articles # NoCap /\ c.count_success >= c.max_articles
CapExceeded(c) == c.max_articles # NoCap /\ c.count_success > c.max_articles

\* Lines 27-52: the Crawl is built, looked up when ignore_cache, saved, and the
\* paper is built.  DBCrawl reads crawl.start_at, which the Crawl of this module
\* does not have (it has created_at), and DBCrawl.cache_hit names CrawlStatus
\* without importing it: both calls can raise, "raised".  Their other outcomes
\* are those of a Crawl that carries start_at.
LStart(ignore_cache, max_articles, hit, created, built) ==
    /\ cr = IdleCrawl
    /\ crawls_run < MaxCrawls
    /\ crawls_run' = crawls_run + 1
    /\ LET c == [uuid |-> Uuid(crawls_run + 1), status |-> "STARTED",
                 max_articles |-> max_articles]
           st(pc, cc) == CrawlState("legacy", pc, ignore_cache, max_articles, cc)
       IN IF ignore_cache /\ hit = "raised"
          THEN cr' = st("raised", c) /\ crawl' = crawl
          ELSE IF ignore_cache /\ DBCrawl_cache_hit(c)
          THEN /\ cr' = [st("returned", [c EXCEPT !.status = "COMPLETED"]) EXCEPT !.completed = 1]
               /\ crawl' = DBCrawl_update_status(c, "COMPLETED")
          ELSE IF created = "raised"
          THEN cr' = st("raised", c) /\ crawl' = crawl
          ELSE /\ crawl' = DBCrawl_create(c)
               /\ cr' = IF built = "error" THEN st("returned", c) ELSE st("articles", c)
    /\ UNCHANGED <<article, queryVars, jobVars, seedVars, sm, sj>>

\* Line 92: crawl.update_status(CrawlStatus.COMPLETED), then the return.
LCompleted(c) ==
    [c EXCEPT !.pc = "returned", !.crawl.status = "COMPLETED", !.completed = c.completed + 1]

\* Lines 58-90: one round of the loop over paper_build.articles.
LArticle(url, downloaded, title, db) ==
    /\ cr # IdleCrawl /\ cr.kind = "legacy" /\ cr.pc = "articles"
    /\ cr.articles_index < MaxArticles
    /\ IF CapExceeded(cr)
       THEN /\ cr' = LCompleted(cr)
            /\ crawl' = DBCrawl_update_status(cr.crawl, "COMPLETED")
            /\ article' = article
       ELSE /\ crawl' = crawl
            /\ LET after_cap == cr.max_articles # NoCap /\ cr.saved >= cr.max_articles
                   c1 == [cr EXCEPT !.articles_index = cr.articles_index + 1]
                   c2 == [c1 EXCEPT !.count_success = cr.count_success + 1]
                   hit == DBArticle_cache_hit(url)
               IN IF ~downloaded
                  THEN /\ cr' = [c1 EXCEPT !.last = Step("failed", url, hit, article[url], after_cap)]
                       /\ article' = article
                  ELSE IF cr.ignore_cache /\ hit
                  THEN /\ cr' = [c2 EXCEPT !.last = Step("skipped", url, hit, article[url], after_cap)]
                       /\ article' = article
                  ELSE /\ article' = DBArticle_save(url, title, "fr", cr.crawl.uuid, db)
                       /\ cr' = [c2 EXCEPT !.last = Step("saved", url, hit, article[url], after_cap),
                                           !.saved = cr.saved + (IF db = "ok" THEN 1 ELSE 0)]
    /\ UNCHANGED <<crawls_run, queryVars, jobVars, seedVars, sm, sj>>

\* The loop has run out of articles: lines 92-105.
LFinish ==
    /\ cr # IdleCrawl /\ cr.kind = "legacy" /\ cr.pc = "articles"
    /\ cr' = LCompleted(cr)
    /\ crawl' = DBCrawl_update_status(cr.crawl, "COMPLETED")
    /\ UNCHANGED <<article, crawls_run, queryVars, jobVars, seedVars, sm, sj>>

----------------------------------------------------------------------------
(* HeuristicCrawler.crawl_paper (crawler/scripts/run_crawl_heuristic.py).    *)

\* Lines 171-196: no Crawl is built, nothing is written to table crawl.  pages
\* is len(paper.category_urls).
HStart(ignore_cache, max_articles, pages) ==
    /\ cr = IdleCrawl
    /\ crawls_run < MaxCrawls
    /\ crawls_run' = crawls_run + 1
    /\ cr' = [CrawlState("heuristic", "category", ignore_cache, max_articles, NoCrawl)
                 EXCEPT !.pages = pages]
    /\ UNCHANGED <<crawl, article, queryVars, jobVars, seedVars, sm, sj>>

\* Mutant: a RequestException ends the crawl of the paper.
fetch_error_returns(c) ==
    [c EXCEPT !.categories = c.categories + 1, !.links = 0,
              !.failed_pages = c.failed_pages + 1, !.pc = "returned"]

\* Lines 209-212: except requests.exceptions.RequestException ... continue.
fetch_error_continue(c) ==
    [c EXCEPT !.categories = c.categories + 1, !.links = 0,
              !.failed_pages = c.failed_pages + 1, !.pc = "category"]

\* Lines 198-214: the next category page is fetched; a failed fetch is skipped.
HCategory(fetched) ==
    /\ cr # IdleCrawl /\ cr.kind = "heuristic" /\ cr.pc = "category"
    /\ cr.categories < cr.pages
    /\ cr' = IF fetched
             THEN [cr EXCEPT !.categories = cr.categories + 1, !.links = 0, !.pc = "links"]
             ELSE fetch_error_continue(cr)
    /\ UNCHANGED <<crawl, article, crawls_run, queryVars, jobVars, seedVars, sm, sj>>

\* Mutant: nothing counts as seen.
NeverSeen(c, url) == FALSE

\* Line 232: url_normalized in seen_urls.
AlreadySeen(c, url) == url \in c.seen_urls

\* Lines 216-263: one round of the loop over the anchors of the page.  href is
\* "none" for an anchor without href; likely is is_likely_article's verdict.
HLink(href, url, title, likely, db) ==
    /\ cr # IdleCrawl /\ cr.kind = "heuristic" /\ cr.pc = "links"
    /\ cr.links < MaxLinks
    /\ IF CapReached(cr)
       THEN cr' = [cr EXCEPT !.pc = "category"] /\ article' = article
       ELSE LET after_cap == cr.max_articles # NoCap /\ cr.saved >= cr.max_articles
                c1 == [cr EXCEPT !.links = cr.links + 1]
                c2 == [c1 EXCEPT !.seen_urls = cr.seen_urls \cup {url},
                                 !.classified[url] = cr.classified[url] + 1]
                hit == DBArticle_cache_hit(url)
                tail(c) == IF CapReached(c) THEN [c EXCEPT !.pc = "category"] ELSE c
            IN IF href = "none"
               THEN cr' = c1 /\ article' = article
               ELSE IF AlreadySeen(cr, url)
               THEN cr' = [c1 EXCEPT !.dup = TRUE] /\ article' = article
               ELSE IF ~likely
               THEN /\ cr' = tail([c2 EXCEPT !.last = Step("rejected", url, hit, article[url], after_cap)])
                    /\ article' = article
               ELSE IF ~cr.ignore_cache /\ hit
               THEN /\ cr' = [c2 EXCEPT !.last = Step("skipped", url, hit, article[url], after_cap)]
                    /\ article' = article
               ELSE /\ article' = DBArticle_save(url, title, "fr", NoUuid, db)
                    /\ cr' = tail([c2 EXCEPT
                                     !.last = Step("saved", url, hit, article[url], after_cap),
                                     !.count_success = cr.count_success + 1,
                                     !.save_calls[url] = cr.save_calls[url] + 1,
                                     !.saved = cr.saved + (IF db = "ok" THEN 1 ELSE 0)])
    /\ UNCHANGED <<crawl, crawls_run, queryVars, jobVars, seedVars, sm, sj>>

\* The page has no more anchors.
HLinksEnd ==
    /\ cr # IdleCrawl /\ cr.kind = "heuristic" /\ cr.pc = "links"
    /\ cr' = [cr EXCEPT !.pc = "category"]
    /\ UNCHANGED <<crawl, article, crawls_run, queryVars, jobVars, seedVars, sm, sj>>

\* No more categories: lines 265-272.
HFinish ==
    /\ cr # IdleCrawl /\ cr.kind = "heuristic" /\ cr.pc = "category"
    /\ cr.categories = cr.pages
    /\ cr' = [cr EXCEPT !.pc = "returned"]
    /\ UNCHANGED <<crawl, article, crawls_run, queryVars, jobVars, seedVars, sm, sj>>

\* crawl_paper is over; the next paper's crawl may start.
CrawlReturn ==
    /\ cr # IdleCrawl /\ cr.pc \in {"returned", "raised"}
    /\ cr' = IdleCrawl
    /\ UNCHANGED <<crawl, article, crawls_run, queryVars, jobVars, seedVars, sm, sj>>

NextCrawl ==
    \/ \E ic \in BOOLEAN, m \in Caps, hit \in {"raised", "answered"},
          created \in {"raised", "inserted"}, built \in DbOutcomes :
          LStart(ic, m, hit, created, built)
    \/ \E u \in URLs, d \in BOOLEAN, t \in Titles, db \in DbOutcomes : LArticle(u, d, t, db)
    \/ LFinish
    \/ \E ic \in BOOLEAN, m \in Caps, pages \in 0..MaxCategories : HStart(ic, m, pages)
    \/ \E f \in BOOLEAN : HCategory(f)
    \/ \E h \in {"none", "href"}, u \in URLs, t \in Titles, l \in BOOLEAN, db \in DbOutcomes :
          HLink(h, u, t, l, db)
    \/ HLinksEnd
    \/ HFinish
    \/ CrawlReturn

SpecCrawl == Init /\ [][NextCrawl]_vars

----------------------------------------------------------------------------
(* The jobs that share the article table: a crawler's saves, translate_paper *)
(* (crawler/scripts/run_translate.py) and main of crawler/scripts/           *)
(* run_embed.py.  Each job has its own connection; what another job sees is  *)
(* what has been committed.  Every article is of the last two days.          *)

\* No finished run of a job is being looked at: the jobs run on.
JobsRunning ==
    /\ tr # NoJob => tr.pc # "done"
    /\ em # NoJob => em.pc \notin {"finished", "interrupted"}

\* A crawler saves one article: article.save(), committed by DBArticle.save.
\* Crawler.crawl_paper saves an URL that is in the table already when
\* ignore_cache is not set; HeuristicCrawler.crawl_paper when it is set.
CrawlerSave(url, title, lang) ==
    /\ JobsRunning
    /\ article' = DBArticle_save(url, title, lang, NoUuid, "ok")
    /\ UNCHANGED <<crawl, cr, crawls_run, queryVars, jobVars, seedVars, sm, sj>>

\* The rows of a SELECT, in the order the database returns them.
Orders(S) == {q \in [1..Cardinality(S) -> S] : \A i, j \in DOMAIN q : q[i] = q[j] => i = j}

\* translate_paper, lines 28-36: SELECT ... WHERE a.title_translated IS NULL.
TranslateSelect ==
    /\ JobsRunning
    /\ tr = NoJob
    /\ \E q \in Orders({u \in URLs : article[u] # NoRow
                                       /\ article[u].title_translated = "null"}) :
          tr' = [pc |-> "selected",
                 results |-> [i \in DOMAIN q |->
                                [url |-> q[i], lang |-> article[q[i]].lang,
                                 text |-> article[q[i]].title]]]
    /\ UNCHANGED <<queryVars, crawlVars, pf, em, seedVars, sm, sj>>

\* Mutant: the URL of every selected row, the rows without a title too.
url_map_all(results) == [i \in DOMAIN results |-> results[i].url]

\* translate_paper, lines 44-53: url_map, the URLs of the rows with a title.
url_map(results) ==
    LET kept == SelectSeq(results, LAMBDA r : Truthy(r.text))
    IN [i \in DOMAIN kept |-> kept[i].url]

\* translate_paper, lines 42-102: the new title_translated of each selected
\* article, "null" where no UPDATE is made.  upstream is the reply to a batch
\* of each language.  translate_batch raises nothing, so the per-title path
\* (lines 72-102) is entered only when an UPDATE of the batch path fails.  A
\* failed UPDATE raises in the batch path; the per-title path then runs in
\* the aborted transaction, where its first UPDATE raises out of
\* translate_paper and nothing has been committed.
translate_paper(results, upstream, db) ==
    LET texts_with_info == SelectSeq(results, LAMBDA r : Truthy(r.text))
        translated_titles == translate_batch(texts_with_info, upstream)
        \* line 66: zip(url_map, translated_titles)
        zipped == (DOMAIN url_map(results)) \cap (DOMAIN translated_titles)
        batch_path(url) ==
            IF \E i \in zipped : url_map(results)[i] = url
            THEN LET i == CHOOSE k \in zipped : url_map(results)[k] = url
                 IN IF Truthy(translated_titles[i]) THEN translated_titles[i] ELSE "null"
            ELSE "null"
    IN [i \in DOMAIN results |->
          IF db = "error" THEN "null" ELSE batch_path(results[i].url)]

\* translate_paper, lines 55-105: the UPDATEs and the commit.
TranslateCommit(reply, db) ==
    /\ JobsRunning
    /\ tr # NoJob /\ tr.pc = "selected"
    /\ LET upstream == [l \in Langs \ {target_lang} |-> reply]
           written == translate_paper(tr.results, upstream, db)
       IN /\ article' = [u \in URLs |->
                IF article[u] # NoRow
                   /\ \E i \in DOMAIN tr.results :
                         tr.results[i].url = u /\ written[i] # "null"
                THEN [article[u] EXCEPT !.title_translated =
                        written[CHOOSE i \in DOMAIN tr.results : tr.results[i].url = u]]
                ELSE article[u]]
          /\ tr' = [pc |-> "done", results |-> tr.results, reply |-> reply,
                    db |-> db, written |-> written]
    /\ UNCHANGED <<crawl, cr, crawls_run, queryVars, pf, em, seedVars, sm, sj>>

\* translate_paper returns; the next run of the job may start.
TranslateReturn ==
    /\ tr # NoJob /\ tr.pc = "done"
    /\ tr' = NoJob
    /\ UNCHANGED <<queryVars, crawlVars, pf, em, seedVars, sm, sj>>

\* run_embed.main, lines 15-23: SELECT url, title_translated ... WHERE
\* title_embedding IS NULL AND title_translated IS NOT NULL AND != ''.
EmbedSelect ==
    /\ JobsRunning
    /\ em = NoJob
    /\ \E q \in Orders({u \in URLs : article[u] # NoRow
                                       /\ article[u].title_embedding = "null"
                                       /\ article[u].title_translated \notin {"null", ""}}) :
          em' = [pc |-> "batches", articles_to_embed |-> q, i |-> 0,
                 uncommitted |-> {}, got |-> {}, committed |-> {},
                 raised |-> FALSE]
    /\ UNCHANGED <<queryVars, crawlVars, pf, tr, seedVars, sm, sj>>

\* articles_to_embed[i:i + BATCH_SIZE], as urls
Batch(job) ==
    {job.articles_to_embed[k] :
        k \in {k \in DOMAIN job.articles_to_embed :
                  k > job.i /\ k <= job.i + EMBED_BATCH_SIZE}}

BatchNeverSkipped(embeddings, batch) == FALSE

\* Line 35: not embeddings or len(embeddings) != len(batch).  embeddings is
\* the number of vectors that came back; get_embeddings returns [] when the
\* service raises.
BatchSkipped(embeddings, batch) == embeddings = 0 \/ embeddings # Cardinality(batch)

\* Lines 27-44 for one batch: get_embeddings and the UPDATEs, not yet
\* committed.  An UPDATE that fails raises to line 48 and ends the job.
EmbedBatch(embeddings, db) ==
    /\ JobsRunning
    /\ em # NoJob /\ em.pc = "batches" /\ em.i < Len(em.articles_to_embed)
    /\ LET got == em.got \cup {[url |-> u, embeddings |-> embeddings,
                                 batch |-> Cardinality(Batch(em))] : u \in Batch(em)}
       IN IF BatchSkipped(embeddings, Batch(em))
          THEN em' = [em EXCEPT !.i = em.i + EMBED_BATCH_SIZE, !.got = got]
          ELSE IF db = "error"
               THEN em' = [em EXCEPT !.pc = "finished", !.raised = TRUE, !.got = got]
               ELSE em' = [em EXCEPT !.pc = "updated", !.uncommitted = Batch(em),
                                     !.got = got]
    /\ UNCHANGED <<queryVars, crawlVars, pf, tr, seedVars, sm, sj>>

\* Line 45: conn.commit() of the batch.  UPDATE ... WHERE url = %s writes the
\* row that is in the table now.
EmbedCommit ==
    /\ JobsRunning
    /\ em # NoJob /\ em.pc = "updated"
    /\ article' = [u \in URLs |->
          IF u \in em.uncommitted /\ article[u] # NoRow
          THEN [article[u] EXCEPT !.title_embedding = "vector"]
          ELSE article[u]]
    /\ em' = [em EXCEPT !.pc = "batches", !.i = em.i + EMBED_BATCH_SIZE,
                        !.uncommitted = {},
                        !.committed = em.committed \cup em.uncommitted]
    /\ UNCHANGED <<crawl, cr, crawls_run, queryVars, pf, tr, seedVars, sm, sj>>

\* The loop is over: lines 50-53.
EmbedFinish ==
    /\ JobsRunning
    /\ em # NoJob /\ em.pc = "batches" /\ em.i >= Len(em.articles_to_embed)
    /\ em' = [em EXCEPT !.pc = "finished"]
    /\ UNCHANGED <<queryVars, crawlVars, pf, tr, seedVars, sm, sj>>

\* The job is stopped from outside; what it has not committed is lost.
EmbedInterrupt ==
    /\ JobsRunning
    /\ em # NoJob /\ em.pc \in {"batches", "updated"}
    /\ em' = [em EXCEPT !.pc = "interrupted", !.uncommitted = {}]
    /\ UNCHANGED <<queryVars, crawlVars, pf, tr, seedVars, sm, sj>>

\* The next run of the job may start.
EmbedReturn ==
    /\ em # NoJob /\ em.pc \in {"finished", "interrupted"}
    /\ em' = NoJob
    /\ UNCHANGED <<queryVars, crawlVars, pf, tr, seedVars, sm, sj>>

NextJobs ==
    \/ \E u \in URLs, l \in {target_lang, "fr"} : CrawlerSave(u, "headline one", l)
    \/ TranslateSelect
    \/ \E r \in UpstreamReplies, db \in DbOutcomes : TranslateCommit(r, db)
    \/ TranslateReturn
    \/ EmbedSelect
    \/ \E n \in 0..(EMBED_BATCH_SIZE + 1), db \in DbOutcomes : EmbedBatch(n, db)
    \/ EmbedCommit
    \/ EmbedFinish
    \/ EmbedInterrupt
    \/ EmbedReturn

SpecJobs == Init /\ [][NextJobs]_vars

----------------------------------------------------------------------------
(* Phase 2 of the analyzer: the batches (query2.py 510-514).  An article is  *)
(* its 0-based index in articles_data.                                       *)

batch_size_one(n, num_workers) == 1

\* Line 510: max(10, len(articles_data) // num_workers)
batch_size(n, num_workers) ==
    IF n \div num_workers > 10 THEN n \div num_workers ELSE 10

\* Lines 511-514: (batch_start_id, len(batch)) for i in range(0, n, batch_size).
batches(n, num_workers) ==
    LET size == batch_size(n, num_workers)
        starts == {i \in 0..(n - 1) : i % size = 0}
    IN [k \in 1..Cardinality(starts) |->
          LET i == (k - 1) * size
          IN [start_id |-> i, len |-> IF i + size < n THEN size ELSE n - i]]

----------------------------------------------------------------------------
(* Functions of the crawler, applied to one input.                           *)

\* Lines 220-234 for one anchor, and again for an anchor whose href is the
\* result.
Canonicalize ==
    /\ pf = NoCall
    /\ \E category_url \in CategoryUrls, href \in Hrefs :
          pf' = [op |-> "canonical", category_url |-> category_url, href |-> href,
                    url |-> url_normalized(category_url, href),
                    again |-> url_normalized(category_url, url_normalized(category_url, href))]
    /\ UNCHANGED <<queryVars, crawlVars, em, tr, seedVars, sm, sj>>

\* Line 236 for one anchor.
Classify ==
    /\ pf = NoCall
    /\ \E category_url \in CategoryUrls, href \in Hrefs, text \in Texts,
          detector \in Detectors, whitelist \in Whitelists :
          pf' = [op |-> "classify", category_url |-> category_url, href |-> href,
                    text |-> text, detector |-> detector, whitelist |-> whitelist,
                    likely |-> is_likely_article(href, text, category_url, detector, whitelist)]
    /\ UNCHANGED <<queryVars, crawlVars, em, tr, seedVars, sm, sj>>

\* On to the next anchor.
NextAnchor ==
    /\ pf # NoCall
    /\ pf' = NoCall
    /\ UNCHANGED <<queryVars, crawlVars, em, tr, seedVars, sm, sj>>

\* One page crawled with its anchors in one order and in the opposite order.
CrawlBothOrders ==
    /\ pf = NoCall
    /\ \E category_url \in CategoryUrls, links \in PageAnchors \X PageAnchors,
          detector \in Detectors, whitelist \in Whitelists :
          pf' = [op |-> "orders", category_url |-> category_url, links |-> links,
                    accepted |-> ScanLinks(category_url, links, detector, whitelist).accepted,
                    accepted_reversed |->
                       ScanLinks(category_url, Reverse(links), detector, whitelist).accepted]
    /\ UNCHANGED <<queryVars, crawlVars, em, tr, seedVars, sm, sj>>

\* The rows translate_paper can select: row i has the i-th URL, any language
\* and any title.
PaperTitles == {"", " ", "un", " deux "}

PaperRows ==
    [1..MaxPaperRows -> [lang : Langs, text : PaperTitles]]

\* translate_paper, lines 42-71, applied to the rows of a SELECT, with an
\* upstream that translates the titles of every batch it does not fail on.
TranslateTitles ==
    /\ pf = NoCall
    /\ \E rows \in PaperRows, raises \in {{}, {0}, {1}} :
          LET results == [i \in DOMAIN rows |->
                            [url |-> <<"article", i>>, lang |-> rows[i].lang,
                             text |-> rows[i].text]]
              upstream == [l \in Langs \ {target_lang} |->
                             [kind |-> "translations", raises |-> raises]]
          IN pf' = [op |-> "translate_paper", results |-> results,
                    raises |-> raises,
                    written |-> translate_paper(results, upstream, "ok")]
    /\ UNCHANGED <<queryVars, crawlVars, em, tr, seedVars, sm, sj>>

\* translate_batch applied to a list of titles.
TranslateBatch ==
    /\ pf = NoCall
    /\ \E texts_with_info \in TextsWithInfo, upstream \in Upstreams :
          pf' = [op |-> "translate_batch", texts_with_info |-> texts_with_info,
                    upstream |-> upstream,
                    results |-> translate_batch(texts_with_info, upstream)]
    /\ UNCHANGED <<queryVars, crawlVars, em, tr, seedVars, sm, sj>>

\* The next call starts when the last one has been looked at.
\* execute, lines 600-618, for countries with the given numbers of articles:
\* the point_id of the articles of each country.
VolumePoints ==
    /\ pf = NoCall
    /\ \E k \in 1..MaxCountries :
          \E article_counts \in [1..k -> MIN_ARTICLES_PER_COUNTRY..MaxCount] :
             LET max_count == CHOOSE c \in {article_counts[i] : i \in 1..k} :
                                 \A i \in 1..k : article_counts[i] <= c
                 min_count == CHOOSE c \in {article_counts[i] : i \in 1..k} :
                                 \A i \in 1..k : article_counts[i] >= c
             IN pf' = [op |-> "volume", article_counts |-> article_counts,
                       point_id |-> [i \in 1..k |->
                                       PointIdOf(article_counts[i], min_count, max_count)]]
    /\ UNCHANGED <<queryVars, crawlVars, em, tr, seedVars, sm, sj>>

\* Lines 510-514 for a list of n articles.
PartitionArticles ==
    /\ pf = NoCall
    /\ \E n \in 0..MaxPhase2Articles, num_workers \in 1..MaxWorkers :
          pf' = [op |-> "batches", n |-> n, num_workers |-> num_workers,
                 batches |-> batches(n, num_workers)]
    /\ UNCHANGED <<queryVars, crawlVars, em, tr, seedVars, sm, sj>>


----------------------------------------------------------------------------
(* The analyzer (web/api/query2.py) and precompute_spectrum_analysis         *)
(* (crawler/scripts/run_spectrum_cache.py).                                  *)

\* What gemini_generate and json.loads give define_spectrum: an exception (of
\* the request, of the JSON, of the keys), or an object with the three keys
\* and a list of points.
SpectrumReplies ==
    {[kind |-> "error"]} \cup {[kind |-> "object", points |-> n] : n \in 0..MaxPoints}

\* define_spectrum, lines 321-367.  The points are the dicts of json.loads:
\* SpectrumDefinition(**...) converts nothing and checks nothing.
define_spectrum(reply) ==
    IF reply.kind = "error"
    THEN Null
    ELSE [spectrum_name |-> "axis", spectrum_description |-> "an axis",
          spectrum_points |-> Points(reply.points)]

\* What gemini_generate and json.loads give classify_articles_batch: an
\* exception, or a list that maps every article of the batch, by its absolute
\* 1-based id, to one point_id.
Phase2Replies ==
    {[kind |-> "error"]} \cup {[kind |-> "list", point_id |-> p] : p \in 1..MaxPoints}

\* Mutant: the headlines of a batch are numbered from 1.
article_num_in_batch(batch_start_id, i) == i + 1

\* Line 394: the number of the i-th headline (from 0) of the prompt.
article_num(batch_start_id, i) == batch_start_id + i + 1

\* classify_articles_batch, lines 370-405, for the batch [start_id, len].  The
\* points are sorted by x.point_id before the try (line 383): with a point in
\* the list, which is a dict, that raises AttributeError.
classify_articles_batch(batch, spectrum_points, reply) ==
    IF batch.len = 0
    THEN [raised |-> FALSE, mappings |-> {}]
    ELSE IF Len(spectrum_points) > 0
         THEN [raised |-> TRUE, mappings |-> {}]
         ELSE IF reply.kind = "error"
              THEN [raised |-> FALSE, mappings |-> {}]
              ELSE [raised |-> FALSE,
                    mappings |-> {[article_id |-> article_num(batch.start_id, i),
                                   point_id |-> reply.point_id] :
                                     i \in 0..(batch.len - 1)}]

\* Mutant: three articles are enough for a summary.
summarize_with_articles(articles_data, mappings, iso) ==
    Cardinality({i \in DOMAIN articles_data : articles_data[i].iso = iso}) >= 3

\* Lines 260-263: whether a country is in countries_to_summarize; point_ids
\* holds the point_id of every article of the country that mapping_dict has.
SummarizeCountry(articles_data, mappings, iso) ==
    LET articles == {i \in DOMAIN articles_data : articles_data[i].iso = iso}
        point_ids == {i \in articles : \E m \in mappings : m.article_id = i}
    IN Cardinality(articles) >= 3 /\ Cardinality(point_ids) > 0

\* generate_country_summaries_batch, lines 235-319: the countries of the
\* prompt, the number of LLM calls, and the countries of the summaries.
\* summarized tells whether the call returns a summary of each country asked.
generate_country_summaries_batch(articles_data, mappings, summarized) ==
    LET countries_to_summarize ==
            {iso \in {articles_data[i].iso : i \in DOMAIN articles_data} :
                SummarizeCountry(articles_data, mappings, iso)}
    IN IF countries_to_summarize = {}
       THEN [asked |-> {}, llm_calls |-> 0, country_summaries |-> {}]
       ELSE [asked |-> countries_to_summarize, llm_calls |-> 1,
             country_summaries |-> IF summarized THEN countries_to_summarize ELSE {}]

\* generate_sankey_data_with_llm_parallel, lines 494-539: the phases entered
\* and what comes back.  phase2[k] is the reply to the k-th batch;
\* future.result() raises what a batch raised.  summarized tells whether the
\* call of Phase 3 succeeds.
generate_sankey_data_with_llm_parallel(articles_data, reply, phase2, summarized) ==
    LET spectrum_result == define_spectrum(reply)
        bs == batches(Len(articles_data), NUM_WORKERS)
        classified(k) ==
            classify_articles_batch(bs[k], spectrum_result.spectrum_points, phase2[k])
    IN IF spectrum_result = Null
       THEN [phases |-> {1}, outcome |-> "none"]
       ELSE IF \E k \in DOMAIN bs : classified(k).raised
            THEN [phases |-> {1, 2}, outcome |-> "raised"]
            ELSE [phases |-> {1, 2, 3}, outcome |-> "result",
                  spectrum_name |-> spectrum_result.spectrum_name,
                  spectrum_description |-> spectrum_result.spectrum_description,
                  spectrum_points |-> spectrum_result.spectrum_points,
                  mappings |-> UNION {classified(k).mappings : k \in DOMAIN bs},
                  country_summaries |->
                     generate_country_summaries_batch(
                        articles_data, UNION {classified(k).mappings : k \in DOMAIN bs},
                        summarized).country_summaries]

\* Every topic of the last day, cached or not.
TopicsOfLastDay == {row \in daily_topics : now - row.created_at <= 2}

\* get_topics_needing_spectrum_analysis, lines 26-33.
TopicsNeedingAnalysis ==
    {row \in daily_topics :
        /\ now - row.created_at <= 2
        /\ CacheRows(row.topic, DATE(row.created_at)) = {}}

\* Lines 78-106 of precompute_spectrum_analysis: the articles of the record,
\* by country, in the order the countries first appear.
articles_by_iso(articles_data, analysis_result) ==
    LET keys == GroupKeys(articles_data)
        article_id_llm(row_) ==
           CHOOSE idx \in DOMAIN articles_data : articles_data[idx] = row_
        \* mapping_dict.get(article_id_llm): None is 0
        point_id(row_) ==
           IF \E m \in analysis_result.mappings : m.article_id = article_id_llm(row_)
           THEN (CHOOSE m \in analysis_result.mappings :
                    m.article_id = article_id_llm(row_)).point_id
           ELSE 0
    IN [k \in 1..Len(keys) |->
          <<keys[k],
            [country |-> CountryName(keys[k]),
             summary |-> IF keys[k] \in analysis_result.country_summaries
                         THEN SummaryText(keys[k]) ELSE "null",
             articles |-> [i \in 1..Len(ArticlesOf(articles_data, keys[k])) |->
                             [url |-> ArticlesOf(articles_data, keys[k])[i].url,
                              point_id |->
                                 point_id(ArticlesOf(articles_data, keys[k])[i])]]]>>]

\* fetch_articles_for_query on a similarity result set, with what execute
\* (lines 566-640) and precompute_spectrum_analysis (lines 61-118) build from
\* the list it returns.
FetchArticles ==
    /\ pf = NoCall
    /\ \E isos \in ResultSets(MaxResultsHttp) :
        LET articles_data == fetch_articles_for_query("ok", "ok", isos)
            asked == {articles_data[i].iso : i \in DOMAIN articles_data}
            bs == batches(Len(articles_data), NUM_WORKERS)
        IN \E llm \in SUBSET asked, reply \in SpectrumReplies,
              phase2 \in [DOMAIN bs -> Phase2Replies] :
          LET analysis_result ==
                 generate_sankey_data_with_llm_parallel(articles_data, reply, phase2, TRUE)
          IN pf' = [op |-> "fetch", results |-> isos, articles_data |-> articles_data,
                    fallback |-> IF articles_data = <<>>
                                 THEN EmptyResponse.articles
                                 ELSE ArticleVolumeResponse(articles_data, llm).articles,
                    cached |-> IF articles_data # <<>> /\ analysis_result.outcome = "result"
                               THEN articles_by_iso(articles_data, analysis_result)
                               ELSE <<>>]
    /\ UNCHANGED <<queryVars, crawlVars, em, tr, seedVars, sm, sj>>

\* Phase 3 on a list of articles some of which Phase 2 has mapped.
SummarizeCountries ==
    /\ pf = NoCall
    /\ \E isos \in ResultSets(MaxResultsHttp), summarized \in BOOLEAN :
          \E mapped \in SUBSET (1..Len(isos)) :
             LET articles_data == ArticleRows(isos)
                 mappings == {[article_id |-> i, point_id |-> 1] : i \in mapped}
                 phase3 == generate_country_summaries_batch(articles_data, mappings,
                                                            summarized)
             IN pf' = [op |-> "phase3", isos |-> isos, mapped |-> mapped,
                       asked |-> phase3.asked, llm_calls |-> phase3.llm_calls,
                       country_summaries |-> phase3.country_summaries]
    /\ UNCHANGED <<queryVars, crawlVars, em, tr, seedVars, sm, sj>>

\* precompute_spectrum_analysis, lines 56-127, for one topic.
Precompute(row, fetched, reply, phase2, summarized, db) ==
    /\ pf = NoCall
    /\ row \in TopicsNeedingAnalysis
    /\ LET topic_date == DATE(row.created_at)
           articles_data == fetched.articles
           analysis_result ==
              generate_sankey_data_with_llm_parallel(articles_data, reply,
                                                     phase2, summarized)
           a == [spectrum_name |-> analysis_result.spectrum_name,
                 spectrum_description |-> analysis_result.spectrum_description,
                 spectrum_points |-> analysis_result.spectrum_points,
                 articles_by_country |-> articles_by_iso(articles_data, analysis_result)]
       IN IF articles_data = <<>>
          THEN /\ pf' = [op |-> "precompute", topic |-> row.topic, topic_date |-> topic_date,
                         reply |-> reply, phase2 |-> phase2, batches |-> <<>>,
                         phases |-> {}, outcome |-> "no articles",
                         mappings |-> {}, written |-> FALSE]
               /\ UNCHANGED <<topic_spectrum_cache, last_write>>
          ELSE IF analysis_result.outcome # "result"
               THEN /\ pf' = [op |-> "precompute", topic |-> row.topic,
                              topic_date |-> topic_date, reply |-> reply,
                              phase2 |-> phase2,
                              batches |-> batches(Len(articles_data), NUM_WORKERS),
                              phases |-> analysis_result.phases,
                              outcome |-> analysis_result.outcome,
                              mappings |-> {}, written |-> FALSE]
                    /\ UNCHANGED <<topic_spectrum_cache, last_write>>
               ELSE /\ pf' = [op |-> "precompute", topic |-> row.topic,
                              topic_date |-> topic_date, reply |-> reply,
                              phase2 |-> phase2,
                              batches |-> batches(Len(articles_data), NUM_WORKERS),
                              phases |-> analysis_result.phases,
                              outcome |-> analysis_result.outcome,
                              mappings |-> analysis_result.mappings,
                              written |-> db = "ok"]
                    /\ topic_spectrum_cache' =
                          cache_spectrum_analysis(row.topic, a, topic_date, db)
                    /\ last_write' = IF db = "ok"
                                     THEN [last_write EXCEPT ![<<row.topic, topic_date>>] = a]
                                     ELSE last_write
    /\ UNCHANGED <<now, daily_topics, writes, rd, ex, http, prev, crawlVars, em, tr, seedVars, sm, sj>>

\* The job runs within one tick of the clock.
\* What fetch_articles_for_query gives the job: the small result sets, and one
\* of ManyArticles articles of one country.
FetchOutcomesJob ==
    FetchOutcomesQuery \cup
    {[articles |-> fetch_articles_for_query("ok", "ok", [i \in 1..ManyArticles |-> "AAA"]),
      embed |-> "ok", db |-> "ok"]}

\* find_title_for_link (run_crawl_heuristic.py, lines 24-49).  A document is
\* the chain from the anchor (1) to the root: doc[j].own is the length of
\* get_text of the j-th tag of the chain, doc[j].sibling that of the longest
\* other child of its parent.  A text is [of, level, len].
TextLens == {5, 12, 13}

Documents ==
    UNION {{doc \in [1..d -> [own : TextLens, sibling : TextLens]] :
              \A j \in 1..(d - 1) :
                 doc[j + 1].own >= doc[j].own /\ doc[j + 1].own >= doc[j].sibling} :
           d \in 1..MaxDepth}

RECURSIVE find_title_for_link(_, _)
find_title_for_link(doc, tag) ==
    LET own_text == [of |-> "tag", level |-> tag, len |-> doc[tag].own]
        sibling_text == [of |-> "sibling", level |-> tag, len |-> doc[tag].sibling]
        best_text == IF sibling_text.len > own_text.len THEN sibling_text ELSE own_text
    IN IF own_text.len > 12
       THEN own_text
       ELSE IF tag < Len(doc)
            THEN IF best_text.len < 12
                 THEN find_title_for_link(doc, tag + 1)
                 ELSE best_text
            ELSE own_text

\* Line 224 for one anchor.
FindTitle ==
    /\ pf = NoCall
    /\ \E doc \in Documents :
          pf' = [op |-> "title", doc |-> doc, title |-> find_title_for_link(doc, 1)]
    /\ UNCHANGED <<queryVars, crawlVars, em, tr, seedVars, sm, sj>>

\* extract_date_from_node (crawler/services/date_extractor.py).  A date is
\* <<year, month, day>>; None is <<>>.
NoDate == <<>>

\* The strings of a tag: "" is an attribute that is absent or empty.
DateStrings ==
    {"", "Read more", "2025-09-09T21:00:07Z", "10/09/2025", "Yesterday",
     "Yesterday | World"}

\* dateparser.parse(date_string, settings) with RELATIVE_BASE 2025-09-11 23:00;
\* date_order is "DMY" or "" (the default of the library, month first).
dateparser_parse(date_string, date_order) ==
    CASE date_string = "2025-09-09T21:00:07Z" -> <<2025, 9, 9>>
      [] date_string = "10/09/2025" ->
            IF date_order = "DMY" THEN <<2025, 9, 10>> ELSE <<2025, 10, 9>>
      [] date_string = "Yesterday" -> <<2025, 9, 10>>
      [] OTHER -> NoDate

\* re.split(r'\s*...\s*|\s*\|\s*', text)[0].strip()
cleaned_text(text) == IF text = "Yesterday | World" THEN "Yesterday" ELSE text

\* extract_date_from_node(tag), lines 9-40; tag is [datetime, content, title,
\* text], text being tag.get_text(strip=True).
extract_date_from_node(tag) ==
    LET date_str_attr == IF tag.datetime # "" THEN tag.datetime
                         ELSE IF tag.content # "" THEN tag.content
                         ELSE tag.title
    IN IF date_str_attr # "" /\ dateparser_parse(date_str_attr, "") # NoDate
       THEN dateparser_parse(date_str_attr, "")
       ELSE IF tag.text # ""
            THEN dateparser_parse(cleaned_text(tag.text), "DMY")
            ELSE NoDate

ExtractDate ==
    /\ pf = NoCall
    /\ \E tag \in [datetime : DateStrings, content : DateStrings, title : DateStrings,
                    text : DateStrings] :
          pf' = [op |-> "date", tag |-> tag, result |-> extract_date_from_node(tag)]
    /\ UNCHANGED <<queryVars, crawlVars, em, tr, seedVars, sm, sj>>

NextUrl ==
    \/ NextAnchor
    \/ FindTitle
    \/ SummarizeCountries
    \/ PartitionArticles
    \/ VolumePoints
    \/ ExtractDate
    \/ FetchArticles
    \/ TranslateTitles
    \/ TranslateBatch
    \/ CrawlBothOrders
    \/ Canonicalize
    \/ Classify

SpecUrl == Init /\ [][NextUrl]_vars

NextPrecompute ==
    \/ \E label \in TopicLabels : InsertDailyTopic(label)
    \/ \E row \in daily_topics, fetched \in FetchOutcomesJob, reply \in SpectrumReplies,
          phase2 \in [1..MaxPhase2Batches -> Phase2Replies], summarized \in BOOLEAN,
          db \in DbOutcomes :
          Precompute(row, fetched, reply, phase2, summarized, db)
    \/ NextAnchor

SpecPrecompute == Init /\ [][NextPrecompute]_vars

----------------------------------------------------------------------------
(* The runs of the spectrum-cache job (run_spectrum_cache.main): the         *)
(* selection, then the topics of the selection one after the other.          *)

\* ORDER BY dt.created_at DESC; rows of one created_at come in the order the
\* store has the topics in, first being the topic it has first.
Before(s, r, first) ==
    \/ s.created_at > r.created_at
    \/ s.created_at = r.created_at /\ s.topic # r.topic /\ s.topic = first

\* Lines 26-34: the rows of the SELECT DISTINCT as (topic, topic_date) pairs.
get_topics_needing_spectrum_analysis(first, db) ==
    IF db = "error"
    THEN <<>>
    ELSE LET S == TopicsNeedingAnalysis
         IN [k \in 1..Cardinality(S) |->
                LET row == CHOOSE r \in S :
                              Cardinality({s \in S : Before(s, r, first)}) = k - 1
                IN [topic |-> row.topic, topic_date |-> DATE(row.created_at)]]

\* main, lines 142-145: the selection of a run.
JobSelect(first, db) ==
    /\ sj = NoJob
    /\ sj' = [pc |-> "topics",
              topics_with_dates |-> get_topics_needing_spectrum_analysis(first, db),
              select |-> db, i |-> 0, outcomes |-> <<>>]
    /\ UNCHANGED <<queryVars, crawlVars, jobVars, seedVars, sm>>

\* What fetch_articles_for_query gives the job for one topic.
JobFetched ==
    {[articles |-> <<>>, embed |-> "ok", db |-> "error"],
     [articles |-> fetch_articles_for_query("ok", "ok",
                      [i \in 1..MIN_ARTICLES_PER_COUNTRY |-> "AAA"]),
      embed |-> "ok", db |-> "ok"]}

JobReplies == {[kind |-> "error"], [kind |-> "object", points |-> 0]}

\* precompute_spectrum_analysis, lines 56-127, for topics_with_dates[i]:
\* no articles (63-66), no analysis (73-76) or an exception (123-127) count
\* as failed; otherwise cache_spectrum_analysis is called and the topic counts
\* as successful, whatever the call returns.
JobTopic(fetched, reply, db) ==
    /\ sj # NoJob /\ sj.pc = "topics" /\ sj.i < Len(sj.topics_with_dates)
    /\ LET topic == sj.topics_with_dates[sj.i + 1].topic
           topic_date == sj.topics_with_dates[sj.i + 1].topic_date
           articles_data == fetched.articles
           phase2 == [k \in 1..MaxPhase2Batches |-> [kind |-> "list", point_id |-> 1]]
           analysis_result ==
              generate_sankey_data_with_llm_parallel(articles_data, reply, phase2, TRUE)
           a == [spectrum_name |-> analysis_result.spectrum_name,
                 spectrum_description |-> analysis_result.spectrum_description,
                 spectrum_points |-> analysis_result.spectrum_points,
                 articles_by_country |-> articles_by_iso(articles_data, analysis_result)]
       IN IF articles_data = <<>> \/ analysis_result.outcome # "result"
          THEN /\ sj' = [sj EXCEPT !.i = sj.i + 1,
                                   !.outcomes = Append(sj.outcomes, "failed")]
               /\ UNCHANGED <<topic_spectrum_cache, last_write>>
          ELSE /\ sj' = [sj EXCEPT !.i = sj.i + 1,
                                   !.outcomes = Append(sj.outcomes,
                                       IF db = "ok" THEN "cached" ELSE "not written")]
               /\ topic_spectrum_cache' =
                     cache_spectrum_analysis(topic, a, topic_date, db)
               /\ last_write' = IF db = "ok"
                                THEN [last_write EXCEPT ![<<topic, topic_date>>] = a]
                                ELSE last_write
    /\ UNCHANGED <<now, daily_topics, writes, rd, ex, http, prev, crawlVars, jobVars, seedVars, sm>>

\* main returns: lines 133-136 and 150.
JobReturn ==
    /\ sj # NoJob /\ sj.i = Len(sj.topics_with_dates)
    /\ sj' = NoJob
    /\ UNCHANGED <<queryVars, crawlVars, jobVars, seedVars, sm>>

\* Time passes between two runs; the clock goes one tick past MaxTime, so
\* that a topic of the first tick leaves the last day.
TickBetweenRuns ==
    /\ sj = NoJob
    /\ now < MaxTime + 1
    /\ now' = now + 1
    /\ UNCHANGED <<daily_topics, topic_spectrum_cache, writes, last_write, rd, ex, http, prev, crawlVars, jobVars, seedVars, sm, sj>>

\* A batch of run_generate_topics, between two runs of the job.
JobInsertDailyTopic(label) ==
    /\ sj = NoJob
    /\ Cardinality(daily_topics) < MaxTopicRows
    /\ InsertDailyTopic(label)

NextSpectrumJob ==
    \/ \E first \in Queries, db \in DbOutcomes : JobSelect(first, db)
    \/ \E fetched \in JobFetched, reply \in JobReplies, db \in DbOutcomes :
          JobTopic(fetched, reply, db)
    \/ JobReturn
    \/ TickBetweenRuns
    \/ \E label \in Queries : JobInsertDailyTopic(label)

SpecSpectrumJob == Init /\ [][NextSpectrumJob]_vars

----------------------------------------------------------------------------
(* The registry sync (crawler/scripts/run_seed_papers.py).                   *)

\* hashlib.md5(url.encode('utf-8')).hexdigest(): a function of the url, taken
\* collision-free.
stable_uuid_from_url(url) == <<"md5", url>>

SeedUrls == {"https://a.example", "https://b.example"}
SeedCategoryUrls == {"https://a.example/world", "https://a.example/sport"}

\* An entry of newspaper_store.json: url, the fields country, ISO, lang and
\* whitelist (one value here), and category_urls, a key the entry may lack.
PaperEntry(url, iso, has_category_urls, category_urls) ==
    [url |-> url, ISO |-> iso, has_category_urls |-> has_category_urls,
     category_urls |-> category_urls]

PaperEntries ==
    {PaperEntry("https://a.example", iso, TRUE, c) :
        iso \in ISOs,
        c \in {<<>>, <<"https://a.example/world">>, <<"https://a.example/sport">>}}
    \cup {PaperEntry("https://a.example", iso, FALSE, <<>>) : iso \in ISOs}
    \cup {PaperEntry("https://b.example", "BBB", TRUE, <<"https://a.example/world">>)}

\* The files the job can find: lists of entries, each url once.
Declarations ==
    {<<>>} \cup {<<e>> : e \in PaperEntries}
    \cup {d \in PaperEntries \X PaperEntries : d[1].url # d[2].url}

\* Line 49: DELETE FROM paper WHERE uuid IN ...; ON DELETE CASCADE removes the
\* categories, crawls and articles of the papers (lines 47-48).
DeletePapers(db, uuids_to_delete) ==
    [paper |-> {r \in db.paper : r.uuid \notin uuids_to_delete},
     category_set |-> {r \in db.category_set : r.paper_uuid \notin uuids_to_delete},
     crawl |-> db.crawl \ uuids_to_delete,
     article |-> db.article \ uuids_to_delete]

\* Lines 36-50, without --dry-run.
PrunePapers(db, papers_json, prune_papers) ==
    LET json_paper_uuids ==
            {stable_uuid_from_url(papers_json[i].url) : i \in DOMAIN papers_json}
        db_paper_uuids == {r.uuid : r \in db.paper}
    IN IF prune_papers
       THEN DeletePapers(db, db_paper_uuids \ json_paper_uuids)
       ELSE db

\* Mutant: --prune-categories deletes nothing.
keep_categories(db, paper_uuid, category_urls) == db

\* Lines 99-101: DELETE FROM category_set WHERE paper_uuid = ... AND url NOT IN
\* tuple(category_urls) or ('',).
PruneCategories(db, paper_uuid, category_urls) ==
    LET tuple_list == IF category_urls = <<>>
                      THEN {""}
                      ELSE {category_urls[i] : i \in DOMAIN category_urls}
    IN [db EXCEPT !.category_set =
           {r \in @ : ~(r.paper_uuid = paper_uuid /\ r.url \notin tuple_list)}]

\* Lines 53-119 for one entry, without --dry-run: INSERT ... ON CONFLICT (uuid)
\* DO UPDATE, the prune of its categories, INSERT ... ON CONFLICT DO NOTHING.
SyncPaper(db, paper_json, prune_categories) ==
    LET paper_uuid == stable_uuid_from_url(paper_json.url)
        upserted == [db EXCEPT !.paper =
                        {r \in @ : r.uuid # paper_uuid}
                        \cup {[uuid |-> paper_uuid, url |-> paper_json.url,
                                ISO |-> paper_json.ISO]}]
        pruned == IF prune_categories
                  THEN PruneCategories(upserted, paper_uuid, paper_json.category_urls)
                  ELSE upserted
    IN IF ~paper_json.has_category_urls
       THEN upserted
       ELSE [pruned EXCEPT !.category_set =
                @ \cup {[paper_uuid |-> paper_uuid, url |-> paper_json.category_urls[i]] :
                           i \in DOMAIN paper_json.category_urls}]

\* The loop of line 52 over the first n entries.
RECURSIVE SyncPapers(_, _, _, _)
SyncPapers(db, papers_json, prune_categories, n) ==
    IF n = 0
    THEN db
    ELSE SyncPaper(SyncPapers(db, papers_json, prune_categories, n - 1),
                   papers_json[n], prune_categories)

\* Mutant: a connection in autocommit mode.
conn_autocommit(before, working, committed) == working

\* Lines 124-131: conn.commit() makes the statements of the connection
\* permanent; conn.rollback(), and conn.close() without commit, discard them.
conn_end(before, working, committed) == IF committed THEN working ELSE before

\* main(), lines 14-131.  done is the number of entries processed when a
\* statement, or the commit, raises; Len(papers_json) + 1 when nothing raises.
main ==
    /\ sync = NoSync
    /\ \E papers_json \in Declarations, prune_categories \in BOOLEAN,
          prune_papers \in BOOLEAN, dry_run \in BOOLEAN :
          \E done \in 0..(Len(papers_json) + 1) :
             LET raised == done <= Len(papers_json)
                 processed == IF raised THEN done ELSE Len(papers_json)
                 working ==
                    IF dry_run
                    THEN registry
                    ELSE SyncPapers(PrunePapers(registry, papers_json, prune_papers),
                                    papers_json, prune_categories, processed)
             IN /\ registry' = conn_end(registry, working, ~dry_run /\ ~raised)
                /\ sync' = [op |-> "main", papers_json |-> papers_json,
                            prune_categories |-> prune_categories,
                            prune_papers |-> prune_papers, dry_run |-> dry_run,
                            raised |-> raised, before |-> registry, working |-> working]
    /\ UNCHANGED <<queryVars, crawlVars, jobVars, sm, sj>>

\* The process has exited.
SyncExit ==
    /\ sync # NoSync
    /\ sync' = NoSync
    /\ UNCHANGED <<queryVars, crawlVars, jobVars, registry, sm, sj>>

\* A crawl of a stored paper has saved its crawl row and an article.
CrawlStoredPaper ==
    /\ sync = NoSync
    /\ \E r \in registry.paper :
          /\ r.uuid \notin registry.crawl
          /\ registry' = [registry EXCEPT !.crawl = @ \cup {r.uuid},
                                          !.article = @ \cup {r.uuid}]
    /\ UNCHANGED <<queryVars, crawlVars, jobVars, sync, sm, sj>>

\* get_papers_from_rows (crawler/db/models/DBPaper.py), lines 13-31: the loop
\* over the rows; a Paper is [uuid, category_urls].
RECURSIVE PapersLoop(_)
PapersLoop(results) ==
    IF results = <<>>
    THEN [papers |-> <<>>, category_urls |-> <<>>]
    ELSE LET n == Len(results)
             before == PapersLoop(SubSeq(results, 1, n - 1))
             result == results[n]
         IN IF n > 1 /\ results[n - 1].uuid # result.uuid
            THEN [papers |-> Append(before.papers,
                                    [uuid |-> results[n - 1].uuid,
                                     category_urls |-> before.category_urls]),
                  category_urls |-> <<result.category_url>>]
            ELSE [papers |-> before.papers,
                  category_urls |-> Append(before.category_urls, result.category_url)]

\* get_papers_from_rows(results), lines 6-43.
get_papers_from_rows(results) ==
    IF results = <<>>
    THEN <<>>
    ELSE LET loop == PapersLoop(results)
         IN IF Len(loop.category_urls) > 0
            THEN Append(loop.papers, [uuid |-> results[Len(results)].uuid,
                                      category_urls |-> loop.category_urls])
            ELSE loop.papers

\* The rows of paper JOIN category_set.
JoinedRows(db) ==
    {[uuid |-> c.paper_uuid, category_url |-> c.url] :
        c \in {x \in db.category_set : \E r \in db.paper : r.uuid = x.paper_uuid}}

\* DBPaper.get_all, lines 59-66: the SELECT has no ORDER BY, the store returns
\* the joined rows in an order of its choice.
DBPaper_get_all ==
    /\ sync = NoSync
    /\ \E results \in [1..Cardinality(JoinedRows(registry)) -> JoinedRows(registry)] :
          /\ \A i, j \in DOMAIN results : results[i] = results[j] => i = j
          /\ sync' = [op |-> "get_all", results |-> results,
                      papers |-> get_papers_from_rows(results)]
    /\ UNCHANGED <<queryVars, crawlVars, jobVars, registry, sm, sj>>

NextSeed ==
    \/ main
    \/ DBPaper_get_all
    \/ SyncExit
    \/ CrawlStoredPaper

SpecSeed == Init /\ [][NextSeed]_vars

----------------------------------------------------------------------------
(* generate_country_summaries_parallel (web/api/query2.py), in steps.  A     *)
(* country is a number; the summary the LLM writes from the headlines of      *)
(* country c is c, and None is 0.                                            *)

\* Mutant: the results are taken in the order the calls complete.
completed_results(countries_to_summarize, finished, results) ==
    [k \in DOMAIN countries_to_summarize |-> results[finished[k]]]

\* executor.map: the results in the order of countries_to_summarize.
map_results(countries_to_summarize, finished, results) ==
    [k \in DOMAIN countries_to_summarize |-> results[countries_to_summarize[k]]]

\* Lines 212-219: the countries with 3 or more articles are listed and the
\* pool is made with min(max_workers, len(countries_to_summarize)) threads;
\* counts[c] is len(country_data['articles']).  execute passes max_workers=4.
SummariesStart ==
    /\ sm = NoSummaries
    /\ \E n \in 1..MaxSummaryCountries :
          \E counts \in [1..n -> 2..3] :
             LET countries_to_summarize ==
                    SelectSeq([c \in 1..n |-> c], LAMBDA c : counts[c] >= 3)
             IN sm' = [pc |-> "pool", counts |-> counts,
                       countries_to_summarize |-> countries_to_summarize,
                       max_workers |-> IF Len(countries_to_summarize) < NUM_WORKERS
                                       THEN Len(countries_to_summarize)
                                       ELSE NUM_WORKERS,
                       started |-> 0, running |-> {}, finished |-> <<>>,
                       requests |-> [c \in 1..n |-> 0],
                       results |-> [c \in 1..n |-> 0],
                       summary |-> [c \in 1..n |-> 0]]
    /\ UNCHANGED <<queryVars, crawlVars, jobVars, seedVars, sj>>

\* A free thread of the pool takes the next country of the list and sends
\* the request of generate_country_summary_simple.
WorkerTakes ==
    /\ sm.pc = "pool"
    /\ sm.started < Len(sm.countries_to_summarize)
    /\ Cardinality(sm.running) < sm.max_workers
    /\ LET c == sm.countries_to_summarize[sm.started + 1]
       IN sm' = [sm EXCEPT !.started = @ + 1,
                           !.running = @ \cup {c},
                           !.requests[c] = @ + 1]
    /\ UNCHANGED <<queryVars, crawlVars, jobVars, seedVars, sj>>

\* Lines 196-202: a request returns its text, or None when it failed or the
\* reply was empty.
CallReturns ==
    /\ sm.pc = "pool"
    /\ \E c \in sm.running, ok \in BOOLEAN :
          sm' = [sm EXCEPT !.running = @ \ {c},
                           !.finished = Append(@, c),
                           !.results[c] = IF ok THEN c ELSE 0]
    /\ UNCHANGED <<queryVars, crawlVars, jobVars, seedVars, sj>>

\* Lines 226-233: the summaries are zipped with the countries, and a country
\* with fewer than 3 articles gets None.
AssignSummaries ==
    /\ sm.pc = "pool"
    /\ sm.started = Len(sm.countries_to_summarize)
    /\ sm.running = {}
    /\ LET summaries == map_results(sm.countries_to_summarize, sm.finished, sm.results)
       IN sm' = [sm EXCEPT !.pc = "done",
                    !.summary = [c \in DOMAIN sm.counts |->
                        IF sm.counts[c] < 3
                        THEN 0
                        ELSE summaries[CHOOSE k \in DOMAIN sm.countries_to_summarize :
                                          sm.countries_to_summarize[k] = c]]]
    /\ UNCHANGED <<queryVars, crawlVars, jobVars, seedVars, sj>>

SummariesReturn ==
    /\ sm.pc = "done"
    /\ sm' = NoSummaries
    /\ UNCHANGED <<queryVars, crawlVars, jobVars, seedVars, sj>>

NextSummaries ==
    \/ SummariesStart
    \/ WorkerTakes
    \/ CallReturns
    \/ AssignSummaries
    \/ SummariesReturn

SpecSummaries == Init /\ [][NextSummaries]_vars

NextCache ==
    \/ Tick
    \/ \E topic \in Queries, a \in AnalysisResults, d \in Dates, db \in DbOutcomes :
          CacheWrite(topic, a, d, db)
    \/ \E topic \in Queries, d \in Dates, db \in DbOutcomes : CacheRead(topic, d, db)
    \/ Return

SpecCache == Init /\ [][NextCache]_vars

NextQuery ==
    \/ Tick
    \/ \E label \in TopicLabels : InsertDailyTopic(label)
    \/ \E row \in daily_topics, a \in AnalysisResults, db \in DbOutcomes :
          JobCacheWrite(row, a, db)
    \/ \E q \in Queries, de \in Dates : ExecuteCall(q, de)
    \/ Return

SpecQuery == Init /\ [][NextQuery]_vars

NextHttp ==
    \/ \E q \in Queries, de \in Dates, inm \in IfNoneMatchValues : do_GET(q, de, inm)
    \/ do_GET_missing
    \/ ResponseSent

SpecHttp == Init /\ [][NextHttp]_vars

----------------------------------------------------------------------------
(* Claims about the query path and the cache.                                *)

Called == ex # IdleCall

\* The date of the newest daily_topics row with the label of the last query.
NewestTopicDate(d) ==
    \E r \in TopicRows(ex.query) :
        /\ \A s \in TopicRows(ex.query) : s.created_at <= r.created_at
        /\ d = DATE(r.created_at)

SameContent(result, a) ==
    /\ a # Null
    /\ result.spectrum_name = a.spectrum_name
    /\ result.spectrum_description = a.spectrum_description
    /\ result.spectrum_points = a.spectrum_points
    /\ result.articles = a.articles_by_country

NoRetrieval == ex.embed = "none" /\ ex.db_articles = "none" /\ ex.llm_calls = 0

C4_NoPersist ==
    [][(ex = IdleCall /\ ex' # IdleCall) =>
          /\ topic_spectrum_cache' = topic_spectrum_cache
          /\ daily_topics' = daily_topics
          /\ (ex'.path # "hit" /\ ex'.cache_lookup = "ok") =>
                {r \in topic_spectrum_cache' :
                    r.topic = ex'.query /\ r.topic_date = ex'.topic_date} = {}]_vars

C4_Witness == Called /\ ex.path = "fallback" /\ ex.cache_lookup = "ok"

ResponseKeys == {"spectrum_name", "spectrum_description", "spectrum_points", "articles"}

\* C5: every value execute returns has the four keys; when no article matches it
\* is null, null, [], {}.
C5_FourKeys ==
    (Called /\ ex.path # "raised") =>
        /\ DOMAIN ex.result = ResponseKeys
        /\ (ex.path # "hit" /\ ex.found = 0) =>
              ex.result = [spectrum_name |-> "null", spectrum_description |-> "null",
                           spectrum_points |-> <<>>, articles |-> <<>>]

C5_Witness == Called /\ ex.path = "empty" /\ ex.embed = "ok" /\ ex.db_articles = "ok"

OnePerKey ==
    \A r1, r2 \in topic_spectrum_cache :
        (r1.topic = r2.topic /\ r1.topic_date = r2.topic_date) => r1 = r2

\* The table holds, for every key, the content of the last write that succeeded.
TableIsLastWrite ==
    \A k \in CacheKeys :
        IF last_write[k] = Null
        THEN CacheRows(k[1], k[2]) = {}
        ELSE \E r \in CacheRows(k[1], k[2]) :
                /\ r.spectrum_name = last_write[k].spectrum_name
                /\ r.spectrum_description = last_write[k].spectrum_description
                /\ r.spectrum_points = last_write[k].spectrum_points
                /\ r.articles_by_country = last_write[k].articles_by_country

\* C3 as stated: the cache holds at most one record per (topic, date), and
\* spectrum_cache.get_cached_spectrum_analysis returns the content of the last
\* successful write for the key, or None when the key was never written.
C3_AsStated ==
    /\ OnePerKey
    /\ TableIsLastWrite
    /\ rd # NoRead =>
          IF last_write[<<rd.topic, rd.topic_date>>] = Null
          THEN rd.value = Null
          ELSE /\ rd.value # Null
               /\ SameContent(rd.value, last_write[<<rd.topic, rd.topic_date>>])

----------------------------------------------------------------------------
(* Claims about the HTTP handler.                                            *)

Answered == http # NoResponse /\ http.status # 400

\* C6 as stated: whatever fails inside a request with all its parameters, the
\* answer is status 500 with a body whose only key is "error".
C6_AsStated ==
    (Answered /\ (ex.path = "raised" \/ ex.embed = "error" \/ ex.db_articles = "error")) =>
        /\ http.status = 500
        /\ DOMAIN http.body = {"error"}

\* Two response dicts with the same keys and values, in whatever order the
\* countries were inserted.
SameDict(x, y) ==
    /\ x.spectrum_name = y.spectrum_name
    /\ x.spectrum_description = y.spectrum_description
    /\ x.spectrum_points = y.spectrum_points
    /\ {x.articles[i] : i \in 1..Len(x.articles)} = {y.articles[i] : i \in 1..Len(y.articles)}

\* C7: the ETag is a function of the serialized body, equal dicts give equal
\* ETags; a request whose If-None-Match is exactly that ETag gets 304 without a
\* body, any other gets 200 with the body and the ETag.
C7_ETag ==
    /\ (http # NoResponse /\ http.status \in {200, 304}) =>
          LET tag == <<"dquote", <<"sha1", json_dumps(http.final_response)>>, "dquote">>
          IN /\ http.status = 304 <=> http.if_none_match = tag
             /\ http.status = 304 => http.body = Null /\ http.etag = NoHeader
             /\ http.status = 200 =>
                   /\ http.body = json_dumps(http.final_response)
                   /\ http.etag = tag
                   /\ http.cache_control = "public, max-age=14400"
    /\ (http # NoResponse /\ http.status = 200 /\ prev # NoResponse) =>
          /\ SameDict(http.final_response, prev.final_response) =>
                http.body = prev.body /\ http.etag = prev.etag
          /\ http.body = prev.body <=> http.etag = prev.etag
    /\ (http # NoResponse /\ http.status = 304) =>
          SameDict(http.final_response, prev.final_response)

\* Equal dicts built in different country orders, answered twice.
C7_Witness ==
    /\ http # NoResponse /\ http.status = 200 /\ prev # NoResponse
    /\ SameDict(http.final_response, prev.final_response)
    /\ http.final_response.articles # prev.final_response.articles

----------------------------------------------------------------------------
(* Claims about the crawlers.                                                *)

CrawlOver == cr # IdleCrawl /\ cr.pc \in {"returned", "raised"}

\* C8 as stated: when crawl_paper is over, the Crawl it built is COMPLETED, in
\* memory and in table crawl, and was set COMPLETED once; never twice.
C8_AsStated ==
    /\ cr # IdleCrawl => cr.completed <= 1
    /\ (CrawlOver /\ cr.crawl # NoCrawl) =>
          /\ cr.crawl.status = "COMPLETED"
          /\ cr.completed = 1
          /\ \A r \in crawl : r.uuid = cr.crawl.uuid => r.status = "COMPLETED"

C11_OncePerUrl ==
    (cr # IdleCrawl /\ cr.kind = "heuristic") =>
        \A u \in URLs :
            /\ cr.classified[u] <= 1
            /\ cr.save_calls[u] <= 1
            /\ cr.classified[u] = 1 <=> u \in cr.seen_urls

\* An anchor of the second category page was dropped: its URL had been saved.
C11_Witness ==
    /\ cr # IdleCrawl /\ cr.kind = "heuristic"
    /\ cr.categories >= 2 /\ cr.dup
    /\ \E u \in URLs : cr.save_calls[u] = 1

\* C13 as stated: every row of article has a crawl_uuid that is the uuid of a
\* row of crawl (there is one paper, so that Crawl is of the article's paper).
C13_AsStated ==
    \A u \in URLs :
        article[u] # NoRow => \E r \in crawl : r.uuid = article[u].crawl_uuid

\* C16: the canonical URL of a canonical URL is that URL, and a canonical URL
\* has neither query nor fragment.
C16_Idempotent ==
    (pf # NoCall /\ pf.op = "canonical") =>
        /\ pf.again = pf.url
        /\ pf.url.query = "" /\ pf.url.fragment = ""

\* A relative reference with query and fragment, on a page that has a query.
C16_Witness ==
    /\ pf # NoCall /\ pf.op = "canonical"
    /\ pf.href.host = "" /\ ~pf.href.rooted /\ pf.href.path # <<>>
    /\ pf.href.query # "" /\ pf.href.fragment # ""
    /\ pf.category_url.query # ""
    /\ pf.url.path = <<"a-long-story-slug-2025">>

\* C14 as stated: an anchor whose absolute URL matches a whitelist pattern is
\* accepted by is_likely_article, whatever its text and its URL are.
C14_AsStated ==
    (pf # NoCall /\ pf.op = "classify"
       /\ \E pattern \in pf.whitelist :
             WhitelistMatch(pattern, urljoin(pf.category_url, pf.href))) =>
        pf.likely

SetOf(q) == {q[i] : i \in 1..Len(q)}

CorrectLengthReplies ==
    /\ pf # NoCall /\ pf.op = "translate_batch"
    /\ \A l \in DOMAIN pf.upstream :
          pf.upstream[l].kind = "list" /\ pf.upstream[l].delta = 0

C12_AsStated ==
    \A u \in URLs :
        (article[u] # NoRow /\ article[u].title_embedding # "null") =>
            article[u].title_translated \notin {"null", ""}

\* The titles of the finished translate_paper run whose batch got a reply
\* that is no list or a list of the wrong length.
FailedBatchTitles ==
    IF tr # NoJob /\ tr.pc = "done" /\ tr.db = "ok"
          /\ (tr.reply.kind = "non-list" \/ (tr.reply.kind = "list" /\ tr.reply.delta # 0))
    THEN {i \in DOMAIN tr.results : tr.results[i].lang # target_lang}
    ELSE {}

\* C17 as stated: after a reply of the wrong length or that is no list, every
\* title of the batch gets the title_translated that a per-title translation
\* that succeeds gives it.
C17_AsStated ==
    \A i \in FailedBatchTitles :
        tr.written[i] = translate_text(tr.results[i].text,
                                       [kind |-> "list", delta |-> 0, item |-> " T "])

\* The articles of the embedding run whose batch got no vectors or the wrong
\* number of vectors from the service.
FailedBatchUrls ==
    {g.url : g \in {g \in em.got : g.embeddings = 0 \/ g.embeddings # g.batch}}

\* C19: the articles of a batch for which the service failed or returned the
\* wrong number of vectors are not written and keep a null title_embedding;
\* a run that ends without a database error has called the service for every
\* batch; and every batch before the one in progress that got its vectors is
\* committed, whenever the run is interrupted.
C19_SkipAndContinue ==
    em # NoJob =>
        /\ \A u \in FailedBatchUrls :
              /\ u \notin em.committed \cup em.uncommitted
              /\ article[u] # NoRow => article[u].title_embedding = "null"
        /\ (em.pc = "finished" /\ ~em.raised) =>
              \A k \in DOMAIN em.articles_to_embed :
                 \E g \in em.got : g.url = em.articles_to_embed[k]
        /\ \A k \in DOMAIN em.articles_to_embed :
              (k <= em.i /\ em.articles_to_embed[k] \notin FailedBatchUrls) =>
                 em.articles_to_embed[k] \in em.committed

C19_Witness ==
    /\ em # NoJob /\ em.pc = "finished" /\ ~em.raised
    /\ Len(em.articles_to_embed) = 2
    /\ em.articles_to_embed[1] \in FailedBatchUrls
    /\ em.articles_to_embed[2] \in em.committed
    /\ article[em.articles_to_embed[1]].title_embedding = "null"
    /\ article[em.articles_to_embed[2]].title_embedding = "vector"

\* C20 as stated: when Phase 1 fails or its reply is not a spectrum of 2 to 4
\* points, the analyzer returns no result, Phases 2 and 3 are not entered and
\* no record is written for the topic.
C20_AsStated ==
    (/\ pf # NoCall /\ pf.op = "precompute" /\ pf.outcome # "no articles"
     /\ (pf.reply.kind = "error" \/ pf.reply.points \notin 2..4)) =>
        /\ pf.outcome = "none"
        /\ pf.phases = {1}
        /\ ~pf.written
        /\ CacheRows(pf.topic, pf.topic_date) = {}

Partitioned == pf # NoCall /\ pf.op = "batches"

AnalyzedWithSpectrum ==
    /\ pf # NoCall /\ pf.op = "precompute" /\ pf.outcome # "no articles"
    /\ pf.reply.kind = "object" /\ pf.reply.points \in 2..4

\* C21 as stated: when the classification of a batch of Phase 2 fails, the
\* analyzer still returns a result, with the mappings of every other batch.
C21_AsStated ==
    (AnalyzedWithSpectrum
       /\ \E k \in DOMAIN pf.batches : pf.phase2[k].kind = "error") =>
        /\ pf.outcome = "result"
        /\ \A k \in DOMAIN pf.batches :
              pf.phase2[k].kind = "list" =>
                 \A i \in 1..pf.batches[k].len :
                    [article_id |-> pf.batches[k].start_id + i,
                     point_id |-> pf.phase2[k].point_id] \in pf.mappings

\* C23 as stated: every cached spectrum has 2 to 4 points, with point_id 1..N
\* in increasing order.
C23_AsStated ==
    \A r \in topic_spectrum_cache :
        /\ Len(r.spectrum_points) \in 2..4
        /\ \A i \in DOMAIN r.spectrum_points : r.spectrum_points[i].point_id = i

\* C24 as stated: every article of a cached record of the analyzer has a
\* point_id, and it is one of the point ids the record declares.
C24_AsStated ==
    \A r \in topic_spectrum_cache :
        \A c \in DOMAIN r.articles_by_country :
            \A i \in DOMAIN r.articles_by_country[c][2].articles :
                \E j \in DOMAIN r.spectrum_points :
                    r.spectrum_points[j].point_id =
                       r.articles_by_country[c][2].articles[i].point_id

\* C26: in the "Article Volume" spectrum a country with strictly more
\* articles than another has a point_id that is at least the other's.
C26_Monotone ==
    (pf # NoCall /\ pf.op = "volume") =>
        \A a, b \in DOMAIN pf.article_counts :
            pf.article_counts[a] > pf.article_counts[b] => pf.point_id[a] >= pf.point_id[b]

C26_Witness ==
    /\ pf # NoCall /\ pf.op = "volume"
    /\ pf.article_counts = <<3, 4, 5>>
    /\ pf.point_id = <<1, 2, 4>>

\* C25: in the list fetch_articles_for_query returns, and in the fallback
\* response and the cached record built from it, every country present has at
\* least MIN_ARTICLES_PER_COUNTRY articles, and a country of the result set
\* that is absent had fewer in the result set.
C25_MinArticles ==
    (pf # NoCall /\ pf.op = "fetch") =>
        LET in_results(iso) == Cardinality({i \in DOMAIN pf.results : pf.results[i] = iso})
            by_country_ok(pairs) ==
               \A k \in DOMAIN pairs :
                  /\ Len(pairs[k][2].articles) >= MIN_ARTICLES_PER_COUNTRY
                  /\ Len(pairs[k][2].articles) = in_results(pairs[k][1])
        IN /\ \A iso \in ISOs :
                LET n == Len(ArticlesOf(pf.articles_data, iso))
                IN /\ n > 0 => n >= MIN_ARTICLES_PER_COUNTRY /\ n = in_results(iso)
                   /\ (n = 0 /\ in_results(iso) > 0) =>
                         in_results(iso) < MIN_ARTICLES_PER_COUNTRY
           /\ by_country_ok(pf.fallback)
           /\ by_country_ok(pf.cached)

C25_Witness ==
    /\ pf # NoCall /\ pf.op = "fetch"
    /\ pf.results = <<"AAA", "BBB", "AAA", "BBB", "AAA">>
    /\ Len(pf.articles_data) = 3
    /\ Len(pf.fallback) = 1
    /\ Len(pf.cached) = 1

\* C30: a link that is_likely_article accepts while no whitelist pattern
\* matches it has the host of the category page, www. apart, and its host,
\* path and query start with those of the category page.
C30_SameHostAndPrefix ==
    (pf # NoCall /\ pf.op = "classify" /\ pf.likely) =>
        LET full_url_obj == urljoin(pf.category_url, pf.href)
        IN \/ \E pattern \in pf.whitelist : WhitelistMatch(pattern, full_url_obj)
           \/ /\ normalize_host(full_url_obj.host) = normalize_host(pf.category_url.host)
              /\ PathQsStartsWith(full_url_obj, pf.category_url)

C30_Witness ==
    /\ pf # NoCall /\ pf.op = "classify" /\ pf.likely
    /\ pf.whitelist # {}
    /\ ~\E pattern \in pf.whitelist :
           WhitelistMatch(pattern, urljoin(pf.category_url, pf.href))
    /\ pf.href.host = "www.news.example"

\* C29: when a datetime, content or title attribute of the tag parses as a
\* date the result is the date of such an attribute; otherwise the result is
\* the date of the visible text, or None when nothing parses.
C29_AsStated ==
    (pf # NoCall /\ pf.op = "date") =>
        LET attributes == {pf.tag.datetime, pf.tag.content, pf.tag.title}
            parsing == {a \in attributes : a # "" /\ dateparser_parse(a, "") # NoDate}
        IN IF parsing # {}
           THEN \E a \in parsing : pf.result = dateparser_parse(a, "")
           ELSE pf.result = IF pf.tag.text = "" THEN NoDate
                            ELSE dateparser_parse(cleaned_text(pf.tag.text), "DMY")

----------------------------------------------------------------------------
(* Claims about the registry sync.                                           *)

\* The tables after every statement of a run without --dry-run that nothing
\* interrupts.
SyncedRegistry ==
    SyncPapers(PrunePapers(sync.before, sync.papers_json, sync.prune_papers),
               sync.papers_json, sync.prune_categories, Len(sync.papers_json))

\* C27: a run with --dry-run leaves the four tables as they were, whatever
\* the prune flags; a run without it leaves them with all of its changes, or,
\* when it was interrupted, with none.
C27_DryRunAndAtomic ==
    sync.op = "main" =>
        IF sync.dry_run \/ sync.raised
        THEN registry = sync.before
        ELSE registry = SyncedRegistry

C27_Witness ==
    /\ sync.op = "main"
    /\ ~sync.dry_run /\ sync.raised
    /\ sync.prune_papers /\ sync.prune_categories
    /\ sync.working # sync.before
    /\ sync.before.crawl # {}
    /\ registry = sync.before

SyncCompleted == sync.op = "main" /\ ~sync.dry_run /\ ~sync.raised

StoredCategories(db, url) ==
    {r.url : r \in {c \in db.category_set : c.paper_uuid = stable_uuid_from_url(url)}}

\* The parts of C28 that do not speak of --prune-categories.
PapersSynced ==
    LET declared == {sync.papers_json[i] : i \in DOMAIN sync.papers_json}
    IN /\ \A e \in declared :
            {r \in registry.paper : r.uuid = stable_uuid_from_url(e.url)}
               = {[uuid |-> stable_uuid_from_url(e.url), url |-> e.url, ISO |-> e.ISO]}
       /\ sync.prune_papers =>
            {r.uuid : r \in registry.paper} = {stable_uuid_from_url(e.url) : e \in declared}
       /\ ~sync.prune_papers =>
            {r.uuid : r \in sync.before.paper} \subseteq {r.uuid : r \in registry.paper}
       /\ (~sync.prune_papers /\ ~sync.prune_categories) =>
            sync.before.category_set \subseteq registry.category_set

PassedRules1To5 ==
    /\ pf # NoCall /\ pf.op = "classify"
    /\ pf.text.alpha /\ pf.text.len >= MIN_HEADLINE_LENGTH
    /\ LET full_url_obj == urljoin(pf.category_url, pf.href)
       IN /\ full_url_obj.path \notin {<<>>, <<"">>}
          /\ full_url_obj # pf.category_url
          /\ ~\E pattern \in pf.whitelist : WhitelistMatch(pattern, full_url_obj)
          /\ ComparableStartsWith(full_url_obj, pf.category_url)
          /\ SlugOf(full_url_obj.path) # ""

\* The link looks like a category page: short slug that is not random, URL
\* shorter than twice the base URL.
CategoryLike ==
    LET full_url_obj == urljoin(pf.category_url, pf.href)
        slug == SlugOf(full_url_obj.path)
    IN /\ StrLen(slug) < 16
       /\ slug \notin pf.detector
       /\ UrlLen(full_url_obj) < UrlLen(pf.category_url) * 2

\* C31: a link past rules 1-5 that looks like a category page is accepted
\* when its path holds a date (YYYY-M(M)-D(D) here) and rejected when not.
C31_DateOverride ==
    (PassedRules1To5 /\ CategoryLike) =>
        LET path == urljoin(pf.category_url, pf.href).path
        IN pf.likely <=> \E i \in DOMAIN path : path[i] = "2025-09-15-vote"

C31_Witness ==
    /\ PassedRules1To5 /\ CategoryLike
    /\ pf.whitelist = {}
    /\ pf.likely
    /\ pf.href.path = <<"2025-09-15-vote">>

\* A run of the job that wrote the record of a topic whose articles are of
\* one country, so that the articles of the record are in the order of the
\* list Phase 2 cut.
WroteOneCountry ==
    /\ pf # NoCall /\ pf.op = "precompute" /\ pf.written
    /\ \A r \in CacheRows(pf.topic, pf.topic_date) : Len(r.articles_by_country) = 1

\* The batches that hold position p (from 1) of the article list.
BatchesOf(p) ==
    {k \in DOMAIN pf.batches :
        pf.batches[k].start_id < p /\ p <= pf.batches[k].start_id + pf.batches[k].len}

\* C32: every article is in exactly one batch, the batches follow one another
\* in the order of the list, the reply of a batch maps the absolute 1-based
\* positions of its articles, and the article at a position of the cached
\* record has the point_id its batch's reply gave.
C32_AbsoluteNumbers ==
    WroteOneCountry =>
        \A r \in CacheRows(pf.topic, pf.topic_date) :
            LET articles == r.articles_by_country[1][2].articles
            IN /\ \A k \in DOMAIN pf.batches :
                    pf.batches[k].start_id =
                       (IF k = 1 THEN 0
                        ELSE pf.batches[k - 1].start_id + pf.batches[k - 1].len)
               /\ \A p \in DOMAIN articles :
                    /\ Cardinality(BatchesOf(p)) = 1
                    /\ LET k == CHOOSE b \in BatchesOf(p) : TRUE
                       IN articles[p].point_id =
                             IF pf.phase2[k].kind = "list"
                             THEN pf.phase2[k].point_id ELSE 0
               /\ \A m \in pf.mappings : m.article_id \in DOMAIN articles
               /\ \A m, o \in pf.mappings : m.article_id = o.article_id => m = o

C32_Witness ==
    /\ WroteOneCountry
    /\ Len(pf.batches) = 2
    /\ pf.phase2[1].kind = "list" /\ pf.phase2[2].kind = "list"
    /\ pf.phase2[1].point_id # pf.phase2[2].point_id
    /\ Cardinality(pf.mappings) = ManyArticles

\* C33: Phase 3 asks for the summary of a country exactly when the country
\* has at least 3 articles of which at least one is mapped; when there is no
\* such country no LLM call is made and there are no summaries.
C33_AskedCountries ==
    (pf # NoCall /\ pf.op = "phase3") =>
        /\ \A iso \in ISOs :
              iso \in pf.asked <=>
                 /\ Cardinality({i \in DOMAIN pf.isos : pf.isos[i] = iso}) >= 3
                 /\ \E i \in pf.mapped : pf.isos[i] = iso
        /\ pf.asked = {} => (pf.llm_calls = 0 /\ pf.country_summaries = {})
        /\ pf.asked # {} => pf.llm_calls = 1

C33_Witness ==
    /\ pf # NoCall /\ pf.op = "phase3"
    /\ pf.isos = <<"AAA", "AAA", "AAA", "BBB", "BBB", "BBB">>
    /\ pf.mapped = {1}
    /\ pf.asked = {"AAA"}
    /\ pf.country_summaries = {"AAA"}

----------------------------------------------------------------------------
(* Claims about the summaries of the degraded answer.                        *)

\* C34: at most 4 requests are in flight, a country with 3 or more articles
\* is asked about once and a smaller one never, and when the call returns
\* every country has the summary written from its own headlines (None when
\* its request failed), a country with fewer than 3 articles None.
C34_BoundedPool ==
    sm # NoSummaries =>
        /\ Cardinality(sm.running) <= 4
        /\ \A c \in DOMAIN sm.counts :
              /\ sm.requests[c] <= 1
              /\ sm.counts[c] < 3 => sm.requests[c] = 0
        /\ sm.pc = "done" =>
              \A c \in DOMAIN sm.counts :
                 IF sm.counts[c] >= 3
                 THEN sm.requests[c] = 1 /\ sm.summary[c] = sm.results[c]
                      /\ sm.summary[c] \in {0, c}
                 ELSE sm.summary[c] = 0

C34_Witness ==
    /\ sm # NoSummaries /\ sm.pc = "done"
    /\ Len(sm.countries_to_summarize) = 5
    /\ sm.finished = <<2, 1, 4, 3, 5>>
    /\ \A c \in 1..5 : sm.summary[c] = c

----------------------------------------------------------------------------
(* Claims about the crawl of a paper by HeuristicCrawler.                    *)

\* C35: a category page whose fetch fails does not stop the crawl: the crawl
\* returns only when every category page of the paper has been requested,
\* and an accepted link of a later page is left unsaved only as a cache hit.
C35_CrawlContinues ==
    (cr # IdleCrawl /\ cr.kind = "heuristic") =>
        /\ cr.pc = "returned" => cr.categories = cr.pages
        /\ cr.pc # "raised"
        /\ (cr.failed_pages > 0 /\ cr.last # NoStep /\ cr.last.action = "skipped") =>
              (cr.last.hit /\ ~cr.ignore_cache)

C35_Witness ==
    /\ cr # IdleCrawl /\ cr.kind = "heuristic" /\ cr.pc = "returned"
    /\ cr.pages = 2 /\ cr.categories = 2
    /\ cr.failed_pages = 1
    /\ cr.last # NoStep /\ cr.last.action = "saved"
    /\ cr.saved = 1

\* C36: the title is the anchor's own text when that is longer than 12;
\* otherwise it is the longest text among a tag and its siblings, and the
\* search moves to the parent whenever that text is of length 12 or less, so
\* that a title of length 12 or less comes from the root only.
C36_AsStated ==
    (pf # NoCall /\ pf.op = "title") =>
        /\ pf.doc[1].own > 12 =>
              pf.title = [of |-> "tag", level |-> 1, len |-> pf.doc[1].own]
        /\ pf.title.len <= 12 => pf.title.level = Len(pf.doc)

\* C37: DBPaper.get_all returns one Paper for every paper uuid that has a
\* category, with all and only the category URLs of that paper, in whatever
\* order the store returns the joined rows.
C37_AsStated ==
    sync.op = "get_all" =>
        LET uuids == {c.paper_uuid : c \in registry.category_set}
        IN /\ \A u \in uuids :
                Cardinality({k \in DOMAIN sync.papers : sync.papers[k].uuid = u}) = 1
           /\ \A k \in DOMAIN sync.papers :
                LET paper == sync.papers[k]
                IN /\ paper.uuid \in uuids
                   /\ {paper.category_urls[i] : i \in DOMAIN paper.category_urls}
                         = {c.url : c \in {x \in registry.category_set :
                                              x.paper_uuid = paper.uuid}}

\* C38: a save of an URL that is stored already writes every column of the
\* row from the saved Article, title_translated and title_embedding too: a
\* step of a crawler that changes a stored row leaves it without translation
\* and without embedding, the state in which the translator selects it.
C38_SaveResets ==
    [][\A u \in URLs :
        (UNCHANGED <<tr, em>> /\ article[u] # NoRow /\ article'[u] # article[u]) =>
            /\ article'[u].title_translated = "null"
            /\ article'[u].title_embedding = "null"]_vars

\* The embedder committed the embedding of an article in this run, and a
\* crawler has saved the article again since.
C38_Witness ==
    /\ em # NoJob
    /\ \E u \in em.committed :
          /\ article[u] # NoRow
          /\ article[u].title_translated = "null"
          /\ article[u].title_embedding = "null"

\* C39: a run of the spectrum-cache job whose SELECT succeeds selects the
\* (topic, date) pairs of the topics of the last day that have no cache
\* record, and no other; a topic the run caches has a record from then on,
\* and no record is ever removed, so no later run selects it; a topic that
\* fails or has no articles leaves the cache as it was, so the next run
\* of that day selects it again.
C39_SelectsUncached ==
    [][/\ (sj = NoJob /\ sj' # NoJob /\ sj'.select = "ok") =>
            {sj'.topics_with_dates[k] : k \in DOMAIN sj'.topics_with_dates}
               = {[topic |-> row.topic, topic_date |-> DATE(row.created_at)] :
                     row \in {r \in daily_topics :
                                 /\ now - r.created_at <= 2
                                 /\ ~\E c \in topic_spectrum_cache :
                                       /\ c.topic = r.topic
                                       /\ c.topic_date = DATE(r.created_at)}}
       /\ (sj # NoJob /\ sj' # NoJob /\ sj'.i = sj.i + 1) =>
            LET t == sj.topics_with_dates[sj'.i]
            IN IF sj'.outcomes[sj'.i] = "cached"
               THEN \E c \in topic_spectrum_cache' :
                       c.topic = t.topic /\ c.topic_date = t.topic_date
               ELSE topic_spectrum_cache' = topic_spectrum_cache
       /\ \A c \in topic_spectrum_cache :
             \E d \in topic_spectrum_cache' :
                d.topic = c.topic /\ d.topic_date = c.topic_date]_vars

\* A run has selected a topic of the last day and left out another one, which
\* an earlier run cached.
C39_Witness ==
    /\ sj # NoJob /\ sj.i = 0 /\ sj.topics_with_dates # <<>>
    /\ \E row \in TopicsOfLastDay :
          /\ CacheRows(row.topic, DATE(row.created_at)) # {}
          /\ \A k \in DOMAIN sj.topics_with_dates :
                sj.topics_with_dates[k].topic # row.topic

\* C40: translate_paper writes to an article the translation of the title
\* of that article: the stripped title when the article is in the target
\* language, the stripped translation of its own title otherwise, whatever
\* the languages, empty titles and batches of the other rows are; a row
\* with an empty or blank title, or of a batch that raised, is left as it is,
\* and every other row is written.
C40_OwnTitle ==
    (pf # NoCall /\ pf.op = "translate_paper") =>
        \A i \in DOMAIN pf.results :
            LET row == pf.results[i]
                own == IF row.lang = target_lang
                       THEN strip(row.text)
                       ELSE strip(Translation(row.text))
            IN /\ pf.written[i] \in {"null", own}
               /\ (row.text \in {"", " "}) => pf.written[i] = "null"
               /\ (row.text \notin {"", " "} /\ (row.lang = target_lang \/ pf.raises = {}))
                     => pf.written[i] = own

\* Three rows of one foreign language, the first without a title: the other
\* two make one batch and each has the translation of its own title.
C40_Witness ==
    /\ pf # NoCall /\ pf.op = "translate_paper"
    /\ pf.raises = {}
    /\ \A i \in DOMAIN pf.results : pf.results[i].lang = "fr"
    /\ pf.results[1].text = "" /\ pf.results[2].text = "un"
    /\ pf.results[3].text = " deux "
    /\ pf.written = <<"null", "one", "two">>

====
